---- MODULE Spec2Model ----
(***************************************************************************)
(* A model of the OCR quality pipeline of grab-text:                       *)
(*   - ocr_engines.py     the engines and OCREngineManager  (SpecOCR)      *)
(*   - image_processor.py ImageProcessor                    (SpecPre)      *)
(*   - text_validator.py  TextValidator                     (SpecVal)      *)
(*   - text_validator.py  ConfidenceThresholdManager        (SpecThr)      *)
(*   - ocr_engines.py     get_ocr_manager, from threads     (SpecSgl)      *)
(*   - grabtext.py        initialize_language, set_language (SpecLang)     *)
(*   - grabtext.py        handle_grab_command, screen path  (SpecGrab)     *)
(*   - grabtext.py        ImageHandler.on_created, threads  (SpecHdl)      *)
(* A text is a sequence of one-character strings.  Confidences and scores  *)
(* are exact fixed-point integers: avg_confidence is held in hundredths of *)
(* a point (round(x, 2) keeps two decimals), final_score in thousandths,   *)
(* the confidence handed to ConfidenceThresholdManager in tenths.          *)
(* Floating-point rounding error of the Python arithmetic is not modelled. *)
(***************************************************************************)
EXTENDS Integers, Sequences, FiniteSets, TLC

VARIABLES
    backend,      \* environment: engine name -> is the engine's backend usable
    available,    \* BaseOCREngine.available of each registered engine
    default_engine,
    ocrCall,      \* the most recent extract_text call and what it returned
    ocrLog,       \* the logging events that call emitted
    preprocessing_steps,  \* ImageProcessor.preprocessing_steps
    preCall,      \* the most recent preprocess call and what it returned
    preLog,       \* the logging events that call emitted
    preset,       \* the preset constructor that returned this processor as it is
    language,     \* TextValidator.language
    valCall,      \* the most recent validate_text call and what it did
    hash_seed,    \* the salt of str hashes, drawn when the interpreter starts
    thrCall,      \* the most recent ConfidenceThresholdManager call and its value
    ocr_manager,  \* ocr_engines._ocr_manager: 0 for None, else the instance
    constructed,  \* how many OCREngineManager objects have been constructed
    caller,       \* thread -> where it is in get_ocr_manager, and what it got
    current_lang_code,   \* grabtext.current_lang_code
    frames,              \* call stack of initialize_language / set_language
    set_language_calls,  \* set_language calls since main called initialize_language
    config_writes,       \* successful save_config writes since then
    grabCall,            \* the most recent handle_grab_command run and what it emitted
    processing_files,    \* ImageHandler.processing_files
    file_sizes,          \* ImageHandler.file_sizes: path -> last size seen, 0 if absent
    timer_pending,       \* path -> a Timer that will pop file_sizes[path] is running
    disk,                \* path -> the file as it is now: size, and whether it opens
    handler              \* thread -> where it is in on_created, for which path

ocrVars == <<backend, available, default_engine, ocrCall, ocrLog>>

preVars == <<preprocessing_steps, preCall, preLog, preset>>

valVars == <<language, valCall, hash_seed>>

thrVars == <<thrCall>>

sglVars == <<ocr_manager, constructed, caller>>

langVars == <<current_lang_code, frames, set_language_calls, config_writes>>

grabVars == <<grabCall>>

hdlVars == <<processing_files, file_sizes, timer_pending, disk, handler>>

appVars == <<sglVars, langVars, grabVars, hdlVars>>

notHdlVars == <<ocrVars, preVars, valVars, thrVars, sglVars, langVars, grabVars>>

vars == <<backend, available, default_engine, ocrCall, ocrLog,
          preprocessing_steps, preCall, preLog, preset, language, valCall, hash_seed,
          thrCall,
          ocr_manager, constructed, caller,
          current_lang_code, frames, set_language_calls, config_writes,
          grabCall, processing_files, file_sizes, timer_pending, disk, handler>>

----------------------------------------------------------------------------
(* Bounds of the model *)

MaxItems == 2
MaxChars == 2
MaxSteps == 2
MaxLen == 3
ScoreSpan == 50
NumThreads == 2
MaxCalls == 2
RecursionLimit == 10
MaxSize == 2

----------------------------------------------------------------------------
(* Python helpers *)

Whitespace == {" ", "\t", "\n"}

SeqsUpTo(S, n) == UNION {[1..k -> S] : k \in 0..n}

Min(a, b) == IF a <= b THEN a ELSE b

RECURSIVE SumSeq(_)
SumSeq(s) == IF s = <<>> THEN 0 ELSE Head(s) + SumSeq(Tail(s))

RECURSIVE LStrip(_)
LStrip(s) ==
    IF s # <<>> /\ Head(s) \in Whitespace THEN LStrip(Tail(s)) ELSE s

RECURSIVE RStrip(_)
RStrip(s) ==
    IF s # <<>> /\ s[Len(s)] \in Whitespace
    THEN RStrip(SubSeq(s, 1, Len(s) - 1))
    ELSE s

\* str.strip()
Strip(s) == RStrip(LStrip(s))

\* len(s.split()): the number of maximal runs of non-whitespace characters
SplitCount(s) ==
    Cardinality({i \in 1..Len(s) :
        /\ s[i] \notin Whitespace
        /\ (i = 1 \/ s[i - 1] \in Whitespace)})

RECURSIVE JoinWithSpace(_)
\* ' '.join(parts)
JoinWithSpace(parts) ==
    IF parts = <<>> THEN <<>>
    ELSE IF Len(parts) = 1 THEN parts[1]
    ELSE parts[1] \o <<" ">> \o JoinWithSpace(Tail(parts))

\* round(num / den, 0) to the nearest integer, ties to even (Python's round)
RoundHalfEven(num, den) ==
    LET q == num \div den
        r == num % den
    IN  IF 2 * r < den THEN q
        ELSE IF 2 * r > den THEN q + 1
        ELSE IF q % 2 = 0 THEN q ELSE q + 1

----------------------------------------------------------------------------
(* ocr_engines.py *)

Engines == {"tesseract", "easyocr", "google_cloud"}

\* engine_name arguments: None, the registered names, a name not registered
None == "None"
RequestNames == {None, "tesseract", "easyocr", "google_cloud", "paddle"}

Langs == {"eng", "por"}

\* str(e) of the exception pytesseract raises when the binary is missing
NotFoundMsg == "tesseract is not installed or it's not in your PATH"
\* str(e) of any other exception a backend raises; str(e) may be empty
ErrMsgs == {"", "backend error"}

\* native per-token confidences: Tesseract reports -1..100, EasyOCR 0..1
\* (held here in hundredths of the unit)
TessConfs == {-1, 0, 60, 100}
EasyConfs == {0, 50, 100}

Item(t, c) == [text |-> t, conf |-> c]

TessItems == {Item(t, c) : t \in {<<" ">>, <<"a">>}, c \in TessConfs}
EasyItems == {Item(t, c) : t \in {<<" ">>, <<"a">>, <<"a", " ", "a">>}, c \in EasyConfs}
GcvItems == {Item(t, 0) : t \in {<<" ">>, <<"a">>, <<" ", "a">>, <<"a", " ", "a">>}}

Raised(msg) == [fault |-> TRUE, err |-> msg, items |-> <<>>, str |-> <<>>]

Output(items, str) == [fault |-> FALSE, err |-> "", items |-> items, str |-> str]

\* What the backend library of an engine can hand back to extract_text: its
\* data (rows of image_to_data and the text of image_to_string for Tesseract,
\* the detections of readtext for EasyOCR, text_annotations for Google Cloud)
\* or an exception.  A backend that is not there always raises.
BackendOutputs(e, present) ==
    IF ~present THEN {Raised(NotFoundMsg)}
    ELSE {Raised(m) : m \in ErrMsgs} \cup
         CASE e = "tesseract" ->
                {Output(i, s) : i \in SeqsUpTo(TessItems, MaxItems),
                                s \in SeqsUpTo({"a", " "}, MaxChars)}
           [] e = "easyocr" ->
                {Output(i, <<>>) : i \in SeqsUpTo(EasyItems, MaxItems)}
           [] OTHER ->
                {Output(i, <<>>) : i \in SeqsUpTo(GcvItems, MaxItems)}

Absent == <<>>

Result(text, wc, cc, conf, lang, has, engine, success, error) ==
    [text |-> text, word_count |-> wc, char_count |-> cc,
     avg_confidence |-> conf, language_used |-> lang, has_text |-> has,
     engine |-> engine, success |-> success, error |-> error]

\* EasyOCREngine._error_result, GoogleCloudOCREngine._error_result and the
\* except branch of TesseractEngine.extract_text
ErrorResult(engine, lang, msg) ==
    Result(<<>>, 0, 0, 0, lang, FALSE, engine, FALSE, <<msg>>)

\* GoogleCloudOCREngine._empty_result
EmptyResult(engine, lang) ==
    Result(<<>>, 0, 0, 0, lang, FALSE, engine, TRUE, Absent)

Returned(result, log) == [outcome |-> "returned", result |-> result, log |-> log]

\* a variant that keeps the -1 rows ("no confidence") in the average
TessConfidencesUnfiltered(items) == [i \in 1..Len(items) |-> items[i].conf]

\* [int(conf) for conf in data['conf'] if conf and int(conf) > 0]
TessConfidences(items) ==
    LET all == [i \in 1..Len(items) |-> items[i].conf]
    IN  SelectSeq(all, LAMBDA c : c # 0 /\ c > 0)

\* a variant that forgets the .strip()
TessTextUnstripped(raw) == raw.str

\* image_to_string(image, lang=lang).strip()
TessText(raw) == Strip(raw.str)

TesseractExtract(raw, lang) ==
    IF raw.fault
    THEN Returned(ErrorResult("tesseract", lang, raw.err),
                  <<"error: Tesseract OCR error">>)
    ELSE LET text == TessText(raw)
             confidences == TessConfidences(raw.items)
             avg100 == IF confidences # <<>>
                       THEN RoundHalfEven(100 * SumSeq(confidences), Len(confidences))
                       ELSE 0
             word_count == Cardinality({i \in 1..Len(raw.items) :
                               /\ raw.items[i].text # <<>>
                               /\ Strip(raw.items[i].text) # <<>>})
             char_count == IF text # <<>> THEN Len(text) ELSE 0
         IN  Returned(Result(text, word_count, char_count, avg100, lang,
                             text # <<>>, "tesseract", TRUE, Absent), <<>>)

\* the detections whose text is kept: if detected_text.strip()
EasyKept(items) == SelectSeq(items, LAMBDA d : Strip(d.text) # <<>>)

\* round(avg_confidence * 100, 2), avg_confidence = total_confidence / len(results)
EasyAvg(items) ==
    LET kept == EasyKept(items)
        total == SumSeq([i \in 1..Len(kept) |-> kept[i].conf])
    IN  IF items # <<>> THEN RoundHalfEven(100 * total, Len(items)) ELSE 0

EasyOCRExtract(raw, lang, isAvailable) ==
    IF ~isAvailable
    THEN Returned(ErrorResult("easyocr", lang, "EasyOCR not available"), <<>>)
    ELSE IF raw.fault
    THEN Returned(ErrorResult("easyocr", lang, raw.err), <<"error: EasyOCR error">>)
    ELSE LET kept == EasyKept(raw.items)
             text == JoinWithSpace([i \in 1..Len(kept) |-> kept[i].text])
             word_count == SumSeq([i \in 1..Len(kept) |-> SplitCount(kept[i].text)])
         IN  Returned(Result(text, word_count, Len(text), EasyAvg(raw.items), lang,
                             text # <<>>, "easyocr", TRUE, Absent), <<>>)

\* avg_confidence = 0.95, returned as it is: 95 hundredths of a point
GcvEstimate == 95

GcvAvg == GcvEstimate

GoogleCloudExtract(raw, lang, isAvailable) ==
    IF ~isAvailable
    THEN Returned(ErrorResult("google_cloud", lang, "Google Cloud Vision not available"), <<>>)
    ELSE IF raw.fault
    THEN Returned(ErrorResult("google_cloud", lang, raw.err),
                  <<"error: Google Cloud Vision error">>)
    ELSE IF raw.items # <<>>
    THEN LET full_text == raw.items[1].text
         IN  Returned(Result(Strip(full_text), SplitCount(full_text), Len(full_text),
                             GcvAvg, lang, Strip(full_text) # <<>>,
                             "google_cloud", TRUE, Absent), <<>>)
    ELSE Returned(EmptyResult("google_cloud", lang), <<>>)

\* engine.extract_text(image, lang) of the engine registered under name e
EngineExtract(e, raw, lang, flags) ==
    CASE e = "tesseract" -> TesseractExtract(raw, lang)
      [] e = "easyocr" -> EasyOCRExtract(raw, lang, flags[e])
      [] OTHER -> GoogleCloudExtract(raw, lang, flags[e])

\* self.engines.get(name): the registered engine of that name, or None
Registered(name) == IF name \in Engines THEN name ELSE None

\* a variant without the fallback: whatever self.engines.get(engine_name) gives
GetEngineNoFallback(engine_name, flags, dflt) ==
    Registered(IF engine_name = None THEN dflt ELSE engine_name)

\* OCREngineManager.get_engine: the engine it returns (by its registered name)
GetEngine(engine_name, flags, dflt) ==
    LET engine == Registered(IF engine_name = None THEN dflt ELSE engine_name)
        tesseract == Registered("tesseract")
    IN  IF engine # None /\ flags[engine] THEN engine
        ELSE IF tesseract # None /\ flags[tesseract] THEN tesseract
        ELSE Registered("tesseract")

\* get_engine evaluates the default argument TesseractEngine() of its last
\* line whenever neither the requested engine nor tesseract is available:
\* a second engine object is built and probed, then dropped
GetEngineLog(engine_name, flags, dflt, env) ==
    LET engine == Registered(IF engine_name = None THEN dflt ELSE engine_name)
    IN  IF (engine # None /\ flags[engine]) \/ flags["tesseract"] THEN <<>>
        ELSE IF env["tesseract"] THEN <<"probe: tesseract">>
        ELSE <<"probe: tesseract", "warning: Tesseract not available">>

NoCall == [op |-> "none", requested |-> None, lang |-> "eng", engine |-> "tesseract",
           raw |-> Raised(""), outcome |-> "none",
           result |-> EmptyResult("tesseract", "eng"), value |-> <<>>]

\* OCREngineManager.__init__: every engine is built once and probes its backend
ManagerConstructed ==
    /\ backend \in [Engines -> BOOLEAN]
    /\ available = backend
    /\ default_engine = "tesseract"
    /\ ocrCall = NoCall
    /\ ocrLog = <<>>

\* OCREngineManager.extract_text(image, lang, engine_name)
ManagerExtractText ==
    /\ ocrCall.op = "none"
    /\ \E name \in RequestNames, lang \in Langs :
        LET e == GetEngine(name, available, default_engine)
        IN  IF e = None
            THEN \* engine.extract_text on None: AttributeError reaches the caller
                 /\ ocrCall' = [NoCall EXCEPT !.op = "manager", !.requested = name,
                                              !.lang = lang, !.engine = None,
                                              !.outcome = "raised"]
                 /\ ocrLog' = GetEngineLog(name, available, default_engine, backend)
                 /\ UNCHANGED <<backend, available, default_engine, preVars, valVars, thrVars, appVars>>
            ELSE \E raw \in BackendOutputs(e, backend[e]) :
                LET r == EngineExtract(e, raw, lang, available)
                IN  /\ ocrCall' = [op |-> "manager", requested |-> name, lang |-> lang,
                                   engine |-> e, raw |-> raw,
                                   outcome |-> r.outcome, result |-> r.result,
                                   value |-> <<>>]
                    /\ ocrLog' = GetEngineLog(name, available, default_engine, backend) \o r.log
                    /\ UNCHANGED <<backend, available, default_engine, preVars, valVars, thrVars, appVars>>

\* OCREngineManager.get_engine(engine_name), called by itself
ManagerGetEngine ==
    /\ ocrCall.op = "none"
    /\ \E name \in RequestNames :
        /\ ocrCall' = [NoCall EXCEPT !.op = "get_engine", !.requested = name,
                                     !.engine = GetEngine(name, available, default_engine),
                                     !.outcome = "value"]
        /\ ocrLog' = GetEngineLog(name, available, default_engine, backend)
    /\ UNCHANGED <<backend, available, default_engine, preVars, valVars, thrVars, appVars>>

\* what pytesseract.get_languages can give TesseractEngine: the installed
\* languages, or an exception, on which the engine answers ['eng', 'por']
InstalledLanguages == {<<"raises">>, <<"eng", "osd">>, <<"eng", "osd", "por">>}

\* get_supported_languages of each engine
SupportedLanguages(e, installed) ==
    CASE e = "tesseract" ->
            IF installed = <<"raises">> THEN <<"eng", "por">> ELSE installed
      [] e = "easyocr" ->
            <<"eng", "por", "spa", "fra", "deu", "ita", "rus", "chi_sim", "kor", "jpn">>
      [] OTHER ->
            <<"eng", "por", "spa", "fra", "deu", "ita", "rus", "chi_sim", "chi_tra",
              "kor", "jpn", "ar", "hi", "th", "vi">>

\* OCREngineManager.get_engine_info: is_available() reads the cached flag
GetEngineInfo(flags, installed) ==
    [e \in Engines |->
        [available |-> flags[e],
         supported_languages |->
             IF flags[e] THEN SupportedLanguages(e, installed) ELSE <<>>]]

\* OCREngineManager.get_available_engines: the names of the engines it returns
GetAvailableEngines(flags) == {e \in Engines : flags[e]}

ManagerGetEngineInfo ==
    /\ ocrCall.op = "none"
    /\ \E installed \in InstalledLanguages :
        ocrCall' = [NoCall EXCEPT !.op = "get_engine_info", !.outcome = "value",
                                  !.value = <<GetEngineInfo(available, installed)>>]
    /\ ocrLog' = <<>>
    /\ UNCHANGED <<backend, available, default_engine, preVars, valVars, thrVars, appVars>>

ManagerGetAvailableEngines ==
    /\ ocrCall.op = "none"
    /\ ocrCall' = [NoCall EXCEPT !.op = "get_available_engines", !.outcome = "value",
                                 !.value = <<GetAvailableEngines(available)>>]
    /\ ocrLog' = <<>>
    /\ UNCHANGED <<backend, available, default_engine, preVars, valVars, thrVars, appVars>>

\* extract_text(image, lang) called on one engine object directly
EngineExtractText ==
    /\ ocrCall.op = "none"
    /\ \E e \in Engines, lang \in Langs :
        \E raw \in BackendOutputs(e, backend[e]) :
            LET r == EngineExtract(e, raw, lang, available)
            IN  /\ ocrCall' = [op |-> "engine", requested |-> e, lang |-> lang,
                               engine |-> e, raw |-> raw,
                               outcome |-> r.outcome, result |-> r.result,
                               value |-> <<>>]
                /\ ocrLog' = r.log
                /\ UNCHANGED <<backend, available, default_engine, preVars, valVars, thrVars, appVars>>

\* the caller takes the returned dictionary (get_ocr_data reads its fields
\* once); the next call starts from the same manager
OcrResultTaken ==
    /\ ocrCall.op # "none"
    /\ ocrCall' = NoCall
    /\ ocrLog' = <<>>
    /\ UNCHANGED <<backend, available, default_engine, preVars, valVars, thrVars, appVars>>

----------------------------------------------------------------------------
(* image_processor.py *)

Step(op, method, a, b) == [op |-> op, method |-> method, a |-> a, b |-> b]

\* the entries of preprocessing_steps; factors are held in tenths
GrayscaleStep == Step("grayscale", "", 0, 0)
BlurStep(kernel_size) == Step("blur", "", kernel_size, 0)
ThresholdStep(method, block_size, c) == Step("threshold", method, block_size, c)
DenoiseStep == Step("denoise", "", 0, 0)
ContrastStep(factor10) == Step("contrast", "", factor10, 0)
SharpenStep == Step("sharpen", "", 0, 0)
ResizeStep(scale10) == Step("resize", "", scale10, 0)

\* an array (or image): its number of planes, the order its channels are
\* really in, and the transforms its pixels went through since the input
Pixels(planes, order, ops) == [planes |-> planes, order |-> order, ops |-> ops]

\* the images a caller passes: PIL images of mode L, RGB and RGBA, a numpy
\* BGR array, and an object that is neither (None)
InputImages ==
    {[kind |-> "pil", px |-> Pixels(1, "gray", <<>>)],
     [kind |-> "pil", px |-> Pixels(3, "rgb", <<>>)],
     [kind |-> "pil", px |-> Pixels(4, "rgba", <<>>)],
     [kind |-> "ndarray", px |-> Pixels(3, "bgr", <<>>)],
     [kind |-> "none", px |-> Pixels(0, "", <<>>)]}

\* cv2.cvtColor(img_array, cv2.COLOR_BGR2GRAY)
ToGray(px) == Pixels(1, "gray", Append(px.ops, Step("cvtColor", "BGR2GRAY", 0, 0)))

\* a transform that keeps the shape
Transformed(px, step) == Pixels(px.planes, px.order, Append(px.ops, step))

\* through PIL and back: cvtColor(BGR2RGB) drops a fourth plane
ThroughPil(px, step) ==
    IF px.planes = 1 THEN Transformed(px, step)
    ELSE Pixels(3, IF px.order = "rgba" THEN "rgb" ELSE px.order, Append(px.ops, step))

Done(px) == [px |-> px, failed |-> FALSE]
Failed(px) == [px |-> px, failed |-> TRUE]

\* a variant that assigns img_array only once the threshold function is done
ThresholdStepBodyAssignsAtEnd(px, step, fault) ==
    IF px.planes # 1
    THEN IF fault \in {1, 2} THEN Failed(px)
         ELSE Done(Transformed(ToGray(px), step))
    ELSE IF fault = 1 THEN Failed(px) ELSE Done(Transformed(px, step))

\* the threshold step: img_array is assigned the grayscale coercion before
\* the threshold function is called
ThresholdStepBody(px, step, fault) ==
    IF px.planes # 1
    THEN IF fault = 1 THEN Failed(px)
         ELSE IF fault = 2 THEN Failed(ToGray(px))
         ELSE Done(Transformed(ToGray(px), step))
    ELSE IF fault = 1 THEN Failed(px) ELSE Done(Transformed(px, step))

\* One pass of the loop body for `step` on img_array = px.  fault = n > 0: the
\* n-th library call of the step raises (a step with fewer calls completes).
\* The result is img_array when the step ends and whether it raised.
ApplyStep(px, step, fault) ==
    CASE step.op = "grayscale" ->
            IF px.planes # 1
            THEN IF fault = 1 THEN Failed(px) ELSE Done(ToGray(px))
            ELSE Done(px)
      [] step.op = "threshold" -> ThresholdStepBody(px, step, fault)
      [] step.op \in {"contrast", "sharpen"} ->
            IF fault = 1 THEN Failed(px) ELSE Done(ThroughPil(px, step))
      [] OTHER -> \* blur, denoise, resize: one call, one assignment
            IF fault = 1 THEN Failed(px) ELSE Done(Transformed(px, step))

\* for step in self.preprocessing_steps: one record per step reached
RECURSIVE RunSteps(_, _, _, _)
RunSteps(px, steps, plan, i) ==
    IF i > Len(steps) THEN <<>>
    ELSE LET r == ApplyStep(px, steps[i], plan[i])
         IN  <<[step |-> steps[i], before |-> px, after |-> r.px,
                 failed |-> r.failed]>>
             \o RunSteps(r.px, steps, plan, i + 1)

StepLog(trace) ==
    [i \in 1..Len(trace) |->
        IF trace[i].failed THEN "warning: Failed to apply preprocessing step"
        ELSE "debug: Applied step"]

\* np.array(image), RGB to BGR for a 3-plane image; image.copy() otherwise
ToArray(image) ==
    IF image.kind = "pil" /\ image.px.planes = 3
    THEN Pixels(3, "bgr", image.px.ops)
    ELSE image.px

\* Image.fromarray(img_array, mode='L') or
\* Image.fromarray(cv2.cvtColor(img_array, cv2.COLOR_BGR2RGB))
ToImage(px) ==
    IF px.planes = 1 THEN [kind |-> "pil", px |-> px]
    ELSE [kind |-> "pil",
          px |-> Pixels(3, IF px.order = "bgr" THEN "rgb" ELSE "bgr", px.ops)]

\* a variant that hands back what the pipeline had produced so far
OnPipelineFailureReturnsArray(image, px) == [obj |-> "new", image |-> ToImage(px)]

\* except Exception: return image -- the object the caller passed
OnPipelineFailure(image, px) == [obj |-> "input", image |-> image]

\* a variant in which the pipeline works on the caller's own pixels
InputAfterInPlace(image, final) == [image EXCEPT !.px = final]

\* the caller's image once preprocess has returned: np.array(image) and
\* image.copy() allocate, and every step assigns a new array to img_array,
\* so nothing is written to the caller's pixels
InputAfter(image, final) == image

\* preprocess(image) with the given step list.  faultIn: the conversion of
\* the input raises; plan: which library call raises in each step; faultOut:
\* the conversion back to an image raises.
Preprocess(image, steps, faultIn, faultOut, plan) ==
    LET inRaises == faultIn \/ image.kind = "none"
        arr == ToArray(image)
        trace == IF inRaises THEN <<>> ELSE RunSteps(arr, steps, plan, 1)
        final == IF trace = <<>> THEN arr ELSE trace[Len(trace)].after
    IN  [faultIn |-> inRaises,
         faultOut |-> (~inRaises /\ faultOut),
         trace |-> trace,
         after |-> IF inRaises THEN image ELSE InputAfter(image, final),
         ret |-> IF inRaises \/ faultOut
                 THEN OnPipelineFailure(image, final)
                 ELSE [obj |-> "new", image |-> ToImage(final)],
         log |-> StepLog(trace) \o
                 (IF inRaises \/ faultOut
                  THEN <<"error: Error in image preprocessing">> ELSE <<>>)]

NoImage == [kind |-> "none", px |-> Pixels(0, "", <<>>)]

NoPreCall == [op |-> "none", input |-> NoImage, input_after |-> NoImage,
              plan |-> <<>>, faultIn |-> FALSE, faultOut |-> FALSE,
              trace |-> <<>>, outcome |-> "none",
              ret |-> [obj |-> "input", image |-> NoImage],
              again |-> [obj |-> "none", image |-> NoImage]]

\* ImageProcessor.__init__
ProcessorConstructed ==
    /\ preprocessing_steps = <<>>
    /\ preCall = NoPreCall
    /\ preLog = <<>>
    /\ preset = ""

\* self.preprocessing_steps.append(step); return self
AddStep(step) ==
    /\ preCall.op = "none"
    /\ Len(preprocessing_steps) < MaxSteps
    /\ preprocessing_steps' = Append(preprocessing_steps, step)
    /\ preset' = ""
    /\ UNCHANGED <<preCall, preLog, ocrVars, valVars, thrVars, appVars>>

add_grayscale == AddStep(GrayscaleStep)

add_blur == AddStep(BlurStep(3))

add_threshold == \E method \in {"adaptive", "otsu", "binary"} :
                    AddStep(ThresholdStep(method, 11, 2))

add_denoise == AddStep(DenoiseStep)

add_contrast_enhancement == AddStep(ContrastStep(15))

add_sharpen == AddStep(SharpenStep)

add_resize == AddStep(ResizeStep(20))

\* a variant whose handwriting preset copies the threshold of text_enhancement
PresetsWithOneThreshold ==
    [text_enhancement |-> <<GrayscaleStep, BlurStep(3), ContrastStep(15), SharpenStep,
                            ThresholdStep("adaptive", 11, 2)>>,
     low_quality |-> <<GrayscaleStep, DenoiseStep, ContrastStep(20), ResizeStep(20),
                       ThresholdStep("otsu", 11, 2)>>,
     handwriting |-> <<GrayscaleStep, BlurStep(5), ContrastStep(18), SharpenStep,
                       ThresholdStep("adaptive", 11, 2)>>,
     document_scan |-> <<GrayscaleStep, DenoiseStep, ContrastStep(13),
                         ThresholdStep("otsu", 11, 2)>>]

\* get_preset_text_enhancement, get_preset_low_quality, get_preset_handwriting,
\* get_preset_document_scan: a new ImageProcessor and its chain of add_ calls
\* (add_threshold('otsu') takes the defaults block_size=11, c=2)
Presets ==
    [text_enhancement |-> <<GrayscaleStep, BlurStep(3), ContrastStep(15), SharpenStep,
                            ThresholdStep("adaptive", 11, 2)>>,
     low_quality |-> <<GrayscaleStep, DenoiseStep, ContrastStep(20), ResizeStep(20),
                       ThresholdStep("otsu", 11, 2)>>,
     handwriting |-> <<GrayscaleStep, BlurStep(5), ContrastStep(18), SharpenStep,
                       ThresholdStep("adaptive", 15, 3)>>,
     document_scan |-> <<GrayscaleStep, DenoiseStep, ContrastStep(13),
                         ThresholdStep("otsu", 11, 2)>>]

get_preset ==
    /\ preCall.op = "none"
    /\ \E name \in DOMAIN Presets :
        /\ preprocessing_steps' = Presets[name]
        /\ preset' = name
    /\ UNCHANGED <<preCall, preLog, ocrVars, valVars, thrVars, appVars>>

clear_steps ==
    /\ preCall.op = "none"
    /\ preprocessing_steps # <<>>
    /\ preprocessing_steps' = <<>>
    /\ preset' = ""
    /\ UNCHANGED <<preCall, preLog, ocrVars, valVars, thrVars, appVars>>

\* ImageProcessor.preprocess(image)
preprocess ==
    /\ preCall.op = "none"
    /\ \E image \in InputImages, faultIn \in BOOLEAN, faultOut \in BOOLEAN,
          plan \in [1..Len(preprocessing_steps) -> 0..2] :
        LET run == Preprocess(image, preprocessing_steps, faultIn, faultOut, plan)
        IN  /\ preCall' = [op |-> "preprocess", input |-> image,
                           input_after |-> run.after,
                           plan |-> plan,
                           faultIn |-> run.faultIn, faultOut |-> run.faultOut,
                           trace |-> run.trace, outcome |-> "returned",
                           ret |-> run.ret, again |-> NoPreCall.again]
            /\ preLog' = run.log
            /\ UNCHANGED <<preprocessing_steps, preset, ocrVars, valVars, thrVars, appVars>>

\* the caller applies the same processor to the same image object once more,
\* the same library calls raising as before
preprocess_again ==
    /\ preCall.op = "preprocess"
    /\ preCall.again.obj = "none"
    /\ LET run == Preprocess(preCall.input_after, preprocessing_steps,
                             preCall.faultIn, preCall.faultOut, preCall.plan)
       IN  /\ preCall' = [preCall EXCEPT !.again = run.ret,
                                         !.input_after = run.after]
           /\ preLog' = preLog \o run.log
    /\ UNCHANGED <<preprocessing_steps, preset, ocrVars, valVars, thrVars, appVars>>

\* the caller takes the returned image (process_image_file: img = ...)
PreResultTaken ==
    /\ preCall.op # "none"
    /\ preCall' = NoPreCall
    /\ preLog' = <<>>
    /\ UNCHANGED <<preprocessing_steps, preset, ocrVars, valVars, thrVars, appVars>>

----------------------------------------------------------------------------
(* text_validator.py *)

Lower ==
    {"a", "b", "c", "d", "e", "f", "g", "h", "i", "j", "k", "l", "m", "n", "o",
    "p", "q", "r", "s", "t", "u", "v", "w", "x", "y", "z"}
Upper ==
    {"A", "B", "C", "D", "E", "F", "G", "H", "I", "J", "K", "L", "M", "N", "O",
    "P", "Q", "R", "S", "T", "U", "V", "W", "X", "Y", "Z"}
Digits == {"0", "1", "2", "3", "4", "5", "6", "7", "8", "9"}
\* letters outside a-z: str.isalpha() and \w accept them, [a-zA-Z] does not
NonAsciiLetters == {"é", "ã"}

LowerOf ==
    [A |-> "a", B |-> "b", C |-> "c", D |-> "d", E |-> "e", F |-> "f", G |->
    "g", H |-> "h", I |-> "i", J |-> "j", K |-> "k", L |-> "l", M |-> "m", N |->
    "n", O |-> "o", P |-> "p", Q |-> "q", R |-> "r", S |-> "s", T |-> "t", U |->
    "u", V |-> "v", W |-> "w", X |-> "x", Y |-> "y", Z |-> "z"]

\* str.lower(), character by character
ToLower(s) == [i \in 1..Len(s) |-> IF s[i] \in Upper THEN LowerOf[s[i]] ELSE s[i]]

Letters == Lower \cup Upper \cup NonAsciiLetters
\* \w
WordChars == Letters \cup Digits \cup {"_"}
\* the punctuation the suspicious-character class lets through (the backquote,
\* which no text here holds, is let through as well)
AllowedPunctuation ==
    {".", ",", "!", "?", ";", ":", "(", ")", "-", "\"", "'", "+", "@", "#", "$",
     "%", "&", "*", "=", "<", ">", "/", "\\", "|", "~", "[", "]", "{", "}"}

CountIn(s, C) == Cardinality({i \in 1..Len(s) : s[i] \in C})

\* the index where the run of characters of C that holds s[i] ends
RECURSIVE RunEnd(_, _, _)
RunEnd(s, i, C) == IF i < Len(s) /\ s[i + 1] \in C THEN RunEnd(s, i + 1, C) ELSE i

\* the indices where a maximal run of characters of C starts
RunStarts(s, C) == {i \in 1..Len(s) : s[i] \in C /\ (i = 1 \/ s[i - 1] \notin C)}

\* the maximal runs of characters of C, in order: what re.findall gives for
\* a pattern [C]+, and text.split() for C the non-whitespace characters
RECURSIVE RunsFrom(_, _, _)
RunsFrom(s, i, C) ==
    IF i > Len(s) THEN <<>>
    ELSE IF s[i] \in C
    THEN <<SubSeq(s, i, RunEnd(s, i, C))>> \o RunsFrom(s, RunEnd(s, i, C) + 1, C)
    ELSE RunsFrom(s, i + 1, C)

\* the words of text.split(), given the characters the text can hold
SplitWords(s) ==
    RunsFrom(s, 1, {s[i] : i \in 1..Len(s)} \ Whitespace)

\* the languages a TextValidator is built with: the default, 'en', any other
Languages == {"pt", "en", "xx"}

\* self.patterns.get(self.language, self.patterns['en'])
FamilyOf(lang) == IF lang \in {"pt", "en"} THEN language ELSE "en"

\* the character ranges lo-hi of the class of the family's 'words' pattern, as
\* code points: a-z A-Z, and for 'pt' also á-ú Á-Ú ç-Ç
WordsRanges(family) ==
    IF family = "pt"
    THEN <<<<97, 122>>, <<65, 90>>, <<225, 250>>, <<193, 218>>, <<231, 199>>>>
    ELSE <<<<97, 122>>, <<65, 90>>>>

\* re compiles a class only if no range runs backwards ("bad character range")
Compiles(ranges) == \A i \in 1..Len(ranges) : ranges[i][1] <= ranges[i][2]

\* the characters the family's 'words' class accepts
WordsClass(family) ==
    IF family = "pt" THEN Lower \cup Upper \cup NonAsciiLetters ELSE Lower \cup Upper

\* \b after index e (e = 0: at the start) next to a character of \w
BoundaryAfter(s, e) ==
    (e >= 1 /\ s[e] \in WordChars) # (e < Len(s) /\ s[e + 1] \in WordChars)

\* r'\b\d+(?:[.,]\d+)?\b' matched at index i: the index its match ends at, 0
\* if there is none
NumberMatchEnd(s, i) ==
    IF ~(s[i] \in Digits /\ BoundaryAfter(s, i - 1)) THEN 0
    ELSE LET j == RunEnd(s, i, Digits)
             fraction == /\ j + 2 <= Len(s)
                         /\ s[j + 1] \in {".", ","}
                         /\ s[j + 2] \in Digits
             k == IF fraction THEN RunEnd(s, j + 2, Digits) ELSE j
         IN  IF fraction /\ BoundaryAfter(s, k) THEN k
             ELSE IF BoundaryAfter(s, j) THEN j
             ELSE 0

\* len(re.findall(numbers, text)) from index i on
RECURSIVE NumberCount(_, _)
NumberCount(s, i) ==
    IF i > Len(s) THEN 0
    ELSE IF NumberMatchEnd(s, i) > 0
    THEN 1 + NumberCount(s, NumberMatchEnd(s, i) + 1)
    ELSE NumberCount(s, i + 1)

AllIn(s, i, j, C) == \A k \in i..j : s[k] \in C

\* r'\b[A-Za-z0-9._%+-]+@[A-Za-z0-9.-]+\.[A-Z|a-z]{2,}\b' matches somewhere
EmailFound(s) ==
    \E at \in 2..Len(s) :
        /\ s[at] = "@"
        /\ \E b \in 1..(at - 1), dot \in (at + 2)..Len(s) :
            /\ BoundaryAfter(s, b - 1)
            /\ AllIn(s, b, at - 1, Lower \cup Upper \cup Digits \cup {".", "_", "%", "+", "-"})
            /\ AllIn(s, at + 1, dot - 1, Lower \cup Upper \cup Digits \cup {".", "-"})
            /\ s[dot] = "."
            /\ \E e \in (dot + 2)..Len(s) :
                /\ AllIn(s, dot + 1, e, Lower \cup Upper \cup {"|"})
                /\ BoundaryAfter(s, e)

\* r'https?://(?:[-\w.])+...' (case-insensitive) matches somewhere: the tail
\* of the pattern is optional
UrlFound(s) ==
    LET low == ToLower(s)
        at(i, w) == i + Len(w) - 1 <= Len(s) /\ SubSeq(low, i, i + Len(w) - 1) = w
        host(i) == i <= Len(s) /\ s[i] \in WordChars \cup {"-", "."}
    IN  \E i \in 1..Len(s) :
            \/ at(i, <<"h", "t", "t", "p", ":", "/", "/">>) /\ host(i + 7)
            \/ at(i, <<"h", "t", "t", "p", "s", ":", "/", "/">>) /\ host(i + 8)

CommonWordsPt ==
    {
    <<"a">>, <<"a", "q", "u", "e", "l", "a">>, <<"a", "q", "u", "e", "l", "e">>, <<"a", "q", "u", "i", "l", "o">>, <<"a", "s">>, <<"c", "o", "m">>,
    <<"c", "o", "m", "o">>, <<"d", "a">>, <<"d", "a", "s">>, <<"d", "e">>, <<"d", "o">>, <<"d", "o", "s">>,
    <<"e">>, <<"e", "m">>, <<"e", "s", "s", "a">>, <<"e", "s", "s", "e">>, <<"e", "s", "t", "a">>, <<"e", "s", "t", "e">>,
    <<"i", "s", "s", "o">>, <<"i", "s", "t", "o">>, <<"m", "a", "i", "s">>, <<"m", "a", "s">>, <<"m", "e", "n", "o", "s">>, <<"m", "u", "i", "t", "o">>,
    <<"n", "a">>, <<"n", "a", "s">>, <<"n", "o">>, <<"n", "o", "s">>, <<"n", "ã", "o">>, <<"o">>,
    <<"o", "n", "d", "e">>, <<"o", "s">>, <<"o", "u">>, <<"p", "a", "r", "a">>, <<"p", "o", "r">>, <<"p", "o", "r", "q", "u", "e">>,
    <<"p", "o", "u", "c", "o">>, <<"q", "u", "a", "l">>, <<"q", "u", "a", "n", "d", "o">>, <<"q", "u", "e">>, <<"q", "u", "e", "m">>, <<"s", "e">>,
    <<"s", "e", "m">>, <<"s", "i", "m">>, <<"u", "m">>, <<"u", "m", "a">>, <<"u", "m", "a", "s">>, <<"u", "n", "s">>}

CommonWordsEn ==
    {
    <<"a">>, <<"a", "b", "o", "u", "t">>, <<"a", "b", "o", "v", "e">>, <<"a", "f", "t", "e", "r">>, <<"a", "g", "a", "i", "n">>, <<"a", "l", "l">>,
    <<"a", "n">>, <<"a", "n", "d">>, <<"a", "n", "y">>, <<"a", "t">>, <<"b", "e", "f", "o", "r", "e">>, <<"b", "e", "l", "o", "w">>,
    <<"b", "e", "t", "w", "e", "e", "n">>, <<"b", "o", "t", "h">>, <<"b", "u", "t">>, <<"b", "y">>, <<"c", "a", "n">>, <<"d", "o", "n">>,
    <<"d", "u", "r", "i", "n", "g">>, <<"e", "a", "c", "h">>, <<"f", "e", "w">>, <<"f", "o", "r">>, <<"f", "r", "o", "m">>, <<"f", "u", "r", "t", "h", "e", "r">>,
    <<"h", "e", "r", "e">>, <<"h", "o", "w">>, <<"i", "n">>, <<"i", "n", "t", "o">>, <<"j", "u", "s", "t">>, <<"m", "o", "r", "e">>,
    <<"m", "o", "s", "t">>, <<"n", "o">>, <<"n", "o", "r">>, <<"n", "o", "t">>, <<"n", "o", "w">>, <<"o", "f">>,
    <<"o", "n">>, <<"o", "n", "c", "e">>, <<"o", "n", "l", "y">>, <<"o", "r">>, <<"o", "t", "h", "e", "r">>, <<"o", "w", "n">>,
    <<"s", "a", "m", "e">>, <<"s", "h", "o", "u", "l", "d">>, <<"s", "o">>, <<"s", "o", "m", "e">>, <<"s", "u", "c", "h">>, <<"t", "h", "a", "n">>,
    <<"t", "h", "e">>, <<"t", "h", "e", "n">>, <<"t", "h", "e", "r", "e">>, <<"t", "h", "r", "o", "u", "g", "h">>, <<"t", "o">>, <<"t", "o", "o">>,
    <<"u", "n", "d", "e", "r">>, <<"u", "p">>, <<"v", "e", "r", "y">>, <<"w", "h", "e", "n">>, <<"w", "h", "e", "r", "e">>, <<"w", "h", "y">>,
    <<"w", "i", "l", "l">>, <<"w", "i", "t", "h">>}

\* TextValidator._get_common_words
GetCommonWords(lang) == IF lang = "pt" THEN CommonWordsPt ELSE CommonWordsEn

Raises(what) == [raised |-> TRUE, error |-> what]

\* TextValidator._analyze_patterns: the first pattern of the family handed to
\* re.findall is 'words'; phone, currency and date are matched too but nothing
\* below reads them
AnalyzePatterns(lang, text) ==
    LET family == FamilyOf(lang)
    IN  IF ~Compiles(WordsRanges(family)) THEN Raises("re.error: bad character range")
        ELSE LET words == RunsFrom(ToLower(text), 1, WordsClass(family))
                 stopword_count == Cardinality({i \in 1..Len(words) :
                                       words[i] \in GetCommonWords(lang)})
             IN  [raised |-> FALSE,
                  words |-> Cardinality(RunStarts(text, WordsClass(family))),
                  numbers |-> NumberCount(text, 1),
                  email |-> EmailFound(text),
                  url |-> UrlFound(text),
                  common_count |-> stopword_count,
                  common_total |-> Len(words)]

\* TextValidator._analyze_basic_properties (ratios are count / char_count)
AnalyzeBasic(text) ==
    [char_count |-> Len(text),
     word_count |-> Len(SplitWords(text)),
     letter_count |-> CountIn(text, Letters),
     number_count |-> CountIn(text, Digits),
     space_count |-> CountIn(text, Whitespace),
     punctuation_count |-> Len(text) - CountIn(text, Letters \cup Digits \cup Whitespace)]

\* the index where the run of one repeated character that starts at i ends
RECURSIVE SameEnd(_, _)
SameEnd(s, i) == IF i < Len(s) /\ s[i + 1] = s[i] THEN SameEnd(s, i + 1) ELSE i

\* re.findall(r'(.)\1{3,}', text) from index i on
RECURSIVE RepeatedChars(_, _)
RepeatedChars(s, i) ==
    IF i > Len(s) THEN <<>>
    ELSE IF s[i] # "\n" /\ SameEnd(s, i) - i + 1 >= 4
    THEN <<s[i]>> \o RepeatedChars(s, SameEnd(s, i) + 1)
    ELSE RepeatedChars(s, i + 1)

\* TextValidator._calculate_readability, exactly, as <<numerator, denominator>>:
\* 100 - 1.5 * words / sentences - 10 * letters of words / words, within 0..100
CalculateReadability(text) ==
    LET W == Len(SplitWords(text))
        S == Cardinality(RunStarts(text, {".", "!", "?"})) + 1
        L == Len(text) - CountIn(text, Whitespace)
        num == 200 * S * W - 3 * W * W - 20 * L * S
        den == 2 * S * W
    IN  IF W = 0 THEN <<0, 1>>
        ELSE IF num < 0 THEN <<0, 1>>
        ELSE IF num > 100 * den THEN <<100, 1>>
        ELSE <<num, den>>

\* re.findall of the suspicious-character class: the matches in text order
SuspiciousChars(text) ==
    SelectSeq(text, LAMBDA c : c \notin WordChars \cup Whitespace \cup AllowedPunctuation)

\* the salts a process may start with
HashSeeds == {0, 1}

\* the indices where a character occurs for the first time
FirstSeen(chars) ==
    {i \in 1..Len(chars) : \A j \in 1..(i - 1) : chars[j] # chars[i]}

\* list(set(chars)): each character once, in the order the set iterates,
\* which the hashes of the characters, and so the salt, decide
ListOfSet(chars, seed) ==
    LET first == FirstSeen(chars)
        n == Cardinality(first)
        nth(k) == CHOOSE i \in first : Cardinality({j \in first : j < i}) = k - 1
    IN  [k \in 1..n |-> chars[nth(IF seed = 0 THEN k ELSE n + 1 - k)]]

\* a variant in which every call salts the hashes anew
SaltOfCallFresh(process_seed, call_seed) == call_seed

\* str hashes are salted once, when the interpreter starts, so equal sets
\* built the same way iterate the same way for the life of the process
SaltOfCall(process_seed, call_seed) == process_seed

\* TextValidator._analyze_quality
AnalyzeQuality(text, seed) ==
    LET words == SplitWords(text)
        mixed == SelectSeq(words, LAMBDA w :
                     /\ Len(w) > 3
                     /\ \E i \in 1..Len(w) : w[i] \in Lower \cup NonAsciiLetters
                     /\ \E i \in 1..Len(w) : w[i] \in Upper)
    IN  [suspicious_chars |-> Len(SuspiciousChars(text)),
         suspicious_list |-> ListOfSet(SuspiciousChars(text), seed),
         repeated_chars |-> Len(RepeatedChars(text, 1)),
         repeated_patterns |-> SubSeq(RepeatedChars(text, 1), 1,
                                      Min(5, Len(RepeatedChars(text, 1)))),
         mixed_case_words |-> Len(mixed),
         irregular_spacing |-> \E i \in 1..(Len(text) - 1) :
                                   text[i] = " " /\ text[i + 1] = " ",
         readability_score |-> CalculateReadability(text)]

min_confidence_threshold == 30
min_text_length == 3

\* ocr_score = min(ocr_confidence / 100, 1.0) * 40, in thousandths of a point
\* (ocr_confidence is in hundredths)
OcrScore(ocr_confidence) == 4 * Min(ocr_confidence, 100 * 100)

\* TextValidator._calculate_final_score, in thousandths of a point
CalculateFinalScore(ocr_confidence, basic, patterns, quality) ==
    LET basic_score ==
            (IF basic.char_count >= min_text_length THEN 10 ELSE 0)
          + (IF basic.word_count >= 1 THEN 10 ELSE 0)
          + (IF /\ basic.char_count > 0
                /\ 3 * basic.char_count <= 10 * basic.letter_count
                /\ 10 * basic.letter_count <= 9 * basic.char_count
             THEN 10 ELSE 0)
        pattern_score ==
            (IF /\ patterns.common_total > 0
                /\ 10 * patterns.common_count > patterns.common_total
             THEN 5 ELSE 0)
          + (IF patterns.words > 0 THEN 5 ELSE 0)
          + (IF patterns.numbers > 0 THEN 5 ELSE 0)
          + (IF patterns.email \/ patterns.url THEN 5 ELSE 0)
        quality_score ==
            (IF quality.suspicious_chars = 0 THEN 3 ELSE 0)
          + (IF quality.repeated_chars = 0 THEN 3 ELSE 0)
          + (IF ~quality.irregular_spacing THEN 2 ELSE 0)
          + (IF quality.readability_score[1] > 50 * quality.readability_score[2]
             THEN 2 ELSE 0)
        score == OcrScore(ocr_confidence)
                 + 1000 * (basic_score + pattern_score + quality_score)
    IN  Min(score, 100 * 1000)

\* TextValidator._is_text_valid
IsTextValid(final_score, basic) ==
    IF final_score < 1000 * min_confidence_threshold THEN FALSE
    ELSE IF basic.char_count < min_text_length THEN FALSE
    ELSE IF basic.word_count = 0 THEN FALSE
    ELSE TRUE

\* TextValidator._get_recommendations
GetRecommendations(score, basic, quality) ==
    (IF score < 30 * 1000
     THEN <<"Texto muito baixa qualidade. Consiste em capturar novamente.">>
     ELSE IF score < 50 * 1000
     THEN <<"Qualidade baixa. Tente pre-processamento da imagem.">>
     ELSE IF score < 70 * 1000
     THEN <<"Qualidade razoavel. Pode haver alguns erros.">>
     ELSE <<>>)
    \o (IF quality.suspicious_chars > 0
        THEN <<"Verificar caracteres incomuns detectados.">> ELSE <<>>)
    \o (IF quality.repeated_chars > 0
        THEN <<"Possiveis erros de OCR em caracteres repetidos.">> ELSE <<>>)
    \o (IF quality.mixed_case_words > 0
        THEN <<"Verificar palavras com maiusculas/minusculas misturadas.">> ELSE <<>>)
    \o (IF quality.irregular_spacing
        THEN <<"Verificar espacamento irregular no texto.">> ELSE <<>>)
    \o (IF 10 * basic.letter_count < 3 * basic.char_count
        THEN <<"Texto com poucas letras. Pode ser principalmente numeros ou simbolos.">>
        ELSE <<>>)

\* a dictionary-valued field: <<>> for {}, <<d>> for a filled dictionary
EmptyDict == <<>>
Dict(d) == <<d>>

\* TextValidator._empty_result
EmptyValidation ==
    [text |-> <<>>, is_valid |-> FALSE, final_score |-> 0, ocr_confidence |-> 0,
     basic_analysis |-> EmptyDict, pattern_analysis |-> EmptyDict,
     quality_analysis |-> EmptyDict,
     recommendations |-> <<"Nenhum texto detectado">>]

\* a variant of the guard that forgets text.strip()
IsEmptyTextUnstripped(text) == text = <<>>

\* if not text or not text.strip()
IsEmptyText(text) == text = <<>> \/ Strip(text) = <<>>

\* TextValidator.validate_text: what the call does, the analyses it ran
ValidateText(lang, raw_text, ocr_confidence, seed) ==
    IF IsEmptyText(raw_text)
    THEN [outcome |-> "returned", ran |-> <<>>, result |-> EmptyValidation]
    ELSE LET text == Strip(raw_text)
             basic == AnalyzeBasic(text)
             patterns == AnalyzePatterns(lang, text)
         IN  IF patterns.raised
             THEN [outcome |-> "raised", ran |-> <<"basic", "patterns">>,
                   result |-> EmptyValidation]
             ELSE LET quality == AnalyzeQuality(text, seed)
                      final_score == CalculateFinalScore(ocr_confidence, basic,
                                                         patterns, quality)
                  IN  [outcome |-> "returned",
                       ran |-> <<"basic", "patterns", "quality">>,
                       result |->
                         [text |-> text,
                          is_valid |-> IsTextValid(final_score, basic),
                          final_score |-> final_score,
                          ocr_confidence |-> ocr_confidence,
                          basic_analysis |-> Dict(basic),
                          pattern_analysis |-> Dict(patterns),
                          quality_analysis |-> Dict(quality),
                          recommendations |->
                              GetRecommendations(final_score, basic, quality)]]

\* the characters of the short texts tried exhaustively
ShortAlphabet == {"a", "B", "1", " ", ".", "^"}

SampleTexts ==
    {<<"a", "@", "b", ".", "c", "d">>,
     <<"h", "t", "t", "p", ":", "/", "/", "a">>,
     <<"a", "a", "a", "a", "a", "a", "a", "a", "!", "!", "!", "!", "#", "#", "#", "#">>,
     <<"a", " ", " ", "a">>,
     <<"a", "B", "c", "d", " ", "e">>,
     <<"a", "a", "a", "a">>,
     <<"1", "2", ".", "5", " ", "a">>,
     <<"é", "1">>,
     <<"^", "§", "^">>,
     <<"H", "e", "l", "l", "o", " ", "w", "o", "r", "l", "d", ",", " ", "c", "o", "n", "t", "a", "c", "t", " ", "m", "e", " ", "a", "t", " ", "a", "@", "b", ".", "c", "o", "m", " ", "o", "r", " ", "v", "i", "s", "i", "t", " ", "h", "t", "t", "p", "s", ":", "/", "/", "x", ".", "c", "o", "m">>}

Texts == SeqsUpTo(ShortAlphabet, MaxLen) \cup SampleTexts

\* ocr_confidence arguments, in hundredths: -100.0, -5.0, 0, 10.0, 50.5, 90.0,
\* 100.0, 120.0
Confidences == {-10000, -500, 0, 1000, 5050, 9000, 10000, 12000}

NoReturn == [outcome |-> "none", ran |-> <<>>, result |-> EmptyValidation]

NoValCall == [op |-> "none", text |-> <<>>, ocr_confidence |-> 0, outcome |-> "none",
              ran |-> <<>>, result |-> EmptyValidation,
              between |-> <<>>, again |-> NoReturn]

\* the interpreter starts; TextValidator.__init__(language)
ValidatorConstructed ==
    /\ language \in Languages
    /\ hash_seed \in HashSeeds
    /\ valCall = NoValCall

validate_text ==
    /\ valCall.op = "none"
    /\ \E text \in Texts, ocr_confidence \in Confidences, call_seed \in HashSeeds :
        LET r == ValidateText(language, text, ocr_confidence,
                              SaltOfCall(hash_seed, call_seed))
        IN  valCall' = [op |-> "validate_text", text |-> text,
                        ocr_confidence |-> ocr_confidence, outcome |-> r.outcome,
                        ran |-> r.ran, result |-> r.result,
                        between |-> <<>>, again |-> NoReturn]
    /\ UNCHANGED <<language, hash_seed, ocrVars, preVars, thrVars, appVars>>

\* the texts of the calls made between a call and its repetition
BetweenTexts == {<<>>, <<"§", "^", "a">>, <<"a", "a", "a", "a">>}

\* the same validator is called with another text, then once more with the
\* text and confidence of the call before
validate_text_again ==
    /\ valCall.op = "validate_text"
    /\ valCall.again = NoReturn
    /\ \E other \in BetweenTexts, call_seed \in HashSeeds :
        LET between == ValidateText(language, other, valCall.ocr_confidence,
                                    SaltOfCall(hash_seed, call_seed))
            r == ValidateText(language, valCall.text, valCall.ocr_confidence,
                              SaltOfCall(hash_seed, call_seed))
        IN  valCall' = [valCall EXCEPT !.between = other, !.again = r]
    /\ UNCHANGED <<language, hash_seed, ocrVars, preVars, thrVars, appVars>>

\* the caller reads the result (process_image_file copies fields out of it)
ValResultTaken ==
    /\ valCall.op # "none"
    /\ valCall' = NoValCall
    /\ UNCHANGED <<language, hash_seed, ocrVars, preVars, thrVars, appVars>>

----------------------------------------------------------------------------
(* text_validator.py: ConfidenceThresholdManager *)

\* self.thresholds, in tenths of a point
thresholds ==
    [very_low |-> 200, low |-> 400, medium |-> 600, high |-> 800, very_high |-> 950]

\* the confidences tried, in tenths: from ScoreSpan below 0 to ScoreSpan above 100
ScoreValues == (0 - ScoreSpan)..(1000 + ScoreSpan)

\* a variant that leaves the 'high' branch out
GetThresholdLevelWithoutHigh(confidence) ==
    IF confidence < thresholds.very_low THEN "very_low"
    ELSE IF confidence < thresholds.low THEN "low"
    ELSE IF confidence < thresholds.medium THEN "medium"
    ELSE "very_high"

\* a variant that compares with <=
GetThresholdLevelInclusive(confidence) ==
    IF confidence <= thresholds.very_low THEN "very_low"
    ELSE IF confidence <= thresholds.low THEN "low"
    ELSE IF confidence <= thresholds.medium THEN "medium"
    ELSE IF confidence <= thresholds.high THEN "high"
    ELSE "very_high"

\* ConfidenceThresholdManager.get_threshold_level
GetThresholdLevel(confidence) ==
    IF confidence < thresholds.very_low THEN "very_low"
    ELSE IF confidence < thresholds.low THEN "low"
    ELSE IF confidence < thresholds.medium THEN "medium"
    ELSE IF confidence < thresholds.high THEN "high"
    ELSE "very_high"

\* a variant that reads the 'low' threshold
ShouldRetryBelowLow(confidence) == confidence < thresholds.low

\* ConfidenceThresholdManager.should_retry
ShouldRetry(confidence) == confidence < thresholds.medium

\* a variant whose last comparison reads the 'high' threshold
GetPreprocessingSuggestionBelowHigh(confidence) ==
    IF confidence < thresholds.very_low THEN "low_quality"
    ELSE IF confidence < thresholds.low THEN "text_enhancement"
    ELSE IF confidence < thresholds.high THEN "document_scan"
    ELSE "none"

\* ConfidenceThresholdManager.get_preprocessing_suggestion
GetPreprocessingSuggestion(confidence) ==
    IF confidence < thresholds.very_low THEN "low_quality"
    ELSE IF confidence < thresholds.low THEN "text_enhancement"
    ELSE IF confidence < thresholds.medium THEN "document_scan"
    ELSE "none"

\* a returned value, kept as <<kind, value>> so that strings and booleans
\* never meet in a comparison
Level(v) == <<"str", v>>
Flag(v) == <<"bool", v>>

NoThrCall == [op |-> "none", confidence |-> 0, ret |-> <<>>]

\* ConfidenceThresholdManager.__init__
ThresholdManagerConstructed == thrCall = NoThrCall

get_threshold_level ==
    /\ thrCall.op = "none"
    /\ \E confidence \in ScoreValues :
        thrCall' = [op |-> "get_threshold_level", confidence |-> confidence,
                    ret |-> Level(GetThresholdLevel(confidence))]
    /\ UNCHANGED <<ocrVars, preVars, valVars, appVars>>

should_retry ==
    /\ thrCall.op = "none"
    /\ \E confidence \in ScoreValues :
        thrCall' = [op |-> "should_retry", confidence |-> confidence,
                    ret |-> Flag(ShouldRetry(confidence))]
    /\ UNCHANGED <<ocrVars, preVars, valVars, appVars>>

get_preprocessing_suggestion ==
    /\ thrCall.op = "none"
    /\ \E confidence \in ScoreValues :
        thrCall' = [op |-> "get_preprocessing_suggestion", confidence |-> confidence,
                    ret |-> Level(GetPreprocessingSuggestion(confidence))]
    /\ UNCHANGED <<ocrVars, preVars, valVars, appVars>>

\* the caller has the value
ThrResultTaken ==
    /\ thrCall.op # "none"
    /\ thrCall' = NoThrCall
    /\ UNCHANGED <<ocrVars, preVars, valVars, appVars>>

----------------------------------------------------------------------------
(* ocr_engines.py: the module-level manager and get_ocr_manager, called from
   several threads; one action per step a thread can be preempted after *)

Threads == 1..NumThreads

NotCalling == [pc |-> "idle", mine |-> 0, got |-> 0, calls |-> 0]

\* _ocr_manager = None, no thread inside get_ocr_manager
ModuleLoaded ==
    /\ ocr_manager = 0
    /\ constructed = 0
    /\ caller = [t \in Threads |-> NotCalling]

\* if _ocr_manager is None
TestIsNone(t) == ocr_manager = 0

\* a thread enters get_ocr_manager and evaluates the test
SglTest(t) ==
    /\ caller[t].pc = "idle"
    /\ caller[t].calls < MaxCalls
    /\ caller' = [caller EXCEPT ![t].pc = IF TestIsNone(t) THEN "construct" ELSE "return",
                                ![t].calls = @ + 1]
    /\ UNCHANGED <<ocr_manager, constructed>>

\* OCREngineManager(): a new object
SglConstruct(t) ==
    /\ caller[t].pc = "construct"
    /\ constructed' = constructed + 1
    /\ caller' = [caller EXCEPT ![t].pc = "assign", ![t].mine = constructed + 1]
    /\ UNCHANGED ocr_manager

\* _ocr_manager = <the new object>
SglAssign(t) ==
    /\ caller[t].pc = "assign"
    /\ ocr_manager' = caller[t].mine
    /\ caller' = [caller EXCEPT ![t].pc = "return"]
    /\ UNCHANGED constructed

\* return _ocr_manager
SglReturn(t) ==
    /\ caller[t].pc = "return"
    /\ caller' = [caller EXCEPT ![t].pc = "idle", ![t].got = ocr_manager]
    /\ UNCHANGED <<ocr_manager, constructed>>

get_ocr_manager ==
    /\ \E t \in Threads : SglTest(t) \/ SglConstruct(t) \/ SglAssign(t) \/ SglReturn(t)
    /\ UNCHANGED <<ocrVars, preVars, valVars, thrVars, langVars, grabVars, hdlVars>>

----------------------------------------------------------------------------
(* grabtext.py: initialize_language and the module's own set_language, which
   main() reaches through the name set_language: the def at module level
   rebinds the name imported from lang.strings.  The call stack is kept
   frame by frame; the interpreter raises RecursionError on the call that
   would make it deeper than RecursionLimit *)

\* the language the configuration file or GRABTEXT_LANG names, lower-cased
ConfiguredLanguages == {"pt", "en", "xx"}

\* lang/ocr_languages.py is_language_supported, and its fallback
is_language_supported(lang) == lang \in {"pt", "en"}

Frame(fn, pc) == [fn |-> fn, pc |-> pc]

Top == frames[Len(frames)]

\* the stack after the top frame returned, its caller resuming at pc
Returned_to(pc) ==
    LET below == SubSeq(frames, 1, Len(frames) - 1)
    IN  IF below = <<>> THEN below
        ELSE [below EXCEPT ![Len(below)].pc = pc]

\* the stack after the top frame called fn, to resume at pc on return
Calling(fn, pc) ==
    Append([frames EXCEPT ![Len(frames)].pc = pc], Frame(fn, "entry"))

\* current_lang_code = 'pt', nothing running
LanguageDefaults ==
    /\ current_lang_code = "pt"
    /\ frames = <<>>
    /\ set_language_calls = 0
    /\ config_writes = 0

\* main(): initialize_language()
main_initialize_language ==
    /\ frames = <<>>
    /\ set_language_calls = 0
    /\ config_writes = 0
    /\ frames' = <<Frame("initialize_language", "entry")>>
    /\ UNCHANGED <<current_lang_code, set_language_calls, config_writes>>
    /\ UNCHANGED <<ocrVars, preVars, valVars, thrVars, sglVars, grabVars, hdlVars>>

\* one step of the initialize_language frame on top of the stack
initialize_language ==
    /\ frames # <<>>
    /\ Top.fn = "initialize_language"
    /\ \/ /\ Top.pc = "entry"
          \* config = load_config(); current_lang_code = ...
          /\ \E lang \in ConfiguredLanguages :
                /\ Len(frames) = 1 \/ lang = current_lang_code
                /\ current_lang_code' = lang
          /\ frames' = [frames EXCEPT ![Len(frames)].pc = "try"]
          /\ UNCHANGED <<set_language_calls, config_writes>>
       \/ /\ Top.pc = "try"
          \* try: set_language(current_lang_code)  except: pass
          /\ IF Len(frames) < RecursionLimit
               THEN /\ frames' = Calling("set_language", "log")
                    /\ set_language_calls' = set_language_calls + 1
               ELSE /\ frames' = [frames EXCEPT ![Len(frames)].pc = "log"]
                    /\ UNCHANGED set_language_calls
          /\ UNCHANGED <<current_lang_code, config_writes>>
       \/ /\ Top.pc = "log"
          \* logging.debug(...), return
          /\ frames' = Returned_to("return")
          /\ UNCHANGED <<current_lang_code, set_language_calls, config_writes>>
    /\ UNCHANGED <<ocrVars, preVars, valVars, thrVars, sglVars, grabVars, hdlVars>>

\* one step of the set_language frame on top of the stack
set_language ==
    /\ frames # <<>>
    /\ Top.fn = "set_language"
    /\ \/ /\ Top.pc = "entry"
          \* if not is_language_supported(lang): return False, ...
          /\ frames' = IF is_language_supported(current_lang_code)
                         THEN [frames EXCEPT ![Len(frames)].pc = "save"]
                         ELSE Returned_to("log")
          /\ UNCHANGED config_writes
       \/ /\ Top.pc = "save"
          \* config = load_config(); config['language'] = lang
          \* if save_config(config): ... else: return False, ...
          /\ \E saved \in BOOLEAN :
                IF saved
                  THEN /\ config_writes' = config_writes + 1
                       /\ frames' = [frames EXCEPT ![Len(frames)].pc = "reinit"]
                  ELSE /\ frames' = Returned_to("log")
                       /\ UNCHANGED config_writes
       \/ /\ Top.pc = "reinit"
          \* initialize_language(); a RecursionError here leaves this frame
          \* and is caught by the except of the initialize_language below it
          /\ frames' = IF Len(frames) < RecursionLimit
                         THEN Calling("initialize_language", "return")
                         ELSE Returned_to("log")
          /\ UNCHANGED config_writes
       \/ /\ Top.pc = "return"
          \* return True, get_string('MSG_LANGUAGE_SET_SUCCESS', lang=lang)
          /\ frames' = Returned_to("log")
          /\ UNCHANGED config_writes
    /\ UNCHANGED <<current_lang_code, set_language_calls>>
    /\ UNCHANGED <<ocrVars, preVars, valVars, thrVars, sglVars, grabVars, hdlVars>>

\* main goes on after initialize_language returned
LangResultTaken ==
    /\ frames = <<>>
    /\ set_language_calls > 0
    /\ set_language_calls' = 0
    /\ config_writes' = 0
    /\ UNCHANGED <<current_lang_code, frames>>
    /\ UNCHANGED <<ocrVars, preVars, valVars, thrVars, sglVars, grabVars, hdlVars>>

----------------------------------------------------------------------------
(* grabtext.py: handle_grab_command without a path, the capture from the
   screen.  What the run shows the user is kept as a sequence of events:
   desktop notifications and lines printed *)

GrabArgs ==
    [dry_run : BOOLEAN, silent : BOOLEAN, no_clipboard : BOOLEAN,
     output : {"none", "writable", "unwritable"}]

\* what flameshot does: image on stdout, image in the fallback file, or one
\* of the ways either attempt ends without an image
CaptureOutcomes ==
    {"stdout", "file", "cancelled", "failed", "fallback_cancelled",
     "fallback_failed", "no_file", "unreadable", "tempfile_error"}

GrabEnvs ==
    [capture : CaptureOutcomes,
     ocr : {"text", "empty", "raises"},
     clipboard : {"ok", "fails"}]

ErrorNotifications ==
    {"notify: error capture", "notify: error clipboard",
     "notify: error grabtext", "notify: error unexpected"}

ErrorPrints == {"print: error file save", "print: error unexpected"}

Unless(silent, event) == IF silent THEN <<>> ELSE <<event>>

\* copy_to_clipboard: its own error notification does not look at --silent
CopyToClipboard(env) ==
    IF env.clipboard = "fails" THEN <<"notify: error clipboard">> ELSE <<>>

\* if args.output: write the file, notify, or print the error
SaveOutput(args) ==
    CASE args.output = "none" -> <<>>
      [] args.output = "writable" -> Unless(args.silent, "notify: saved")
      [] args.output = "unwritable" -> <<"print: error file save">>

\* if not args.no_clipboard: copy, notify
ClipboardPart(args, env) ==
    IF args.no_clipboard THEN <<>>
    ELSE CopyToClipboard(env) \o Unless(args.silent, "notify: extracted")

\* except Exception as e: log, print, notify
UnexpectedError(args) ==
    <<"print: error unexpected">> \o Unless(args.silent, "notify: error unexpected")

\* error_msg is not a name of handle_grab_command nor of the module
error_msg_is_bound == FALSE

\* the send_notification that closes the non-empty-text branch: its arguments
\* are evaluated first, and reading error_msg raises NameError
ClosingNotification(args) ==
    IF error_msg_is_bound
      THEN <<"notify: error grabtext">>
      ELSE UnexpectedError(args)

\* from Image.open to the end of the try
AfterCapture(args, env) ==
    CASE env.ocr = "raises" -> UnexpectedError(args)
      [] env.ocr = "empty" -> <<>>
      [] env.ocr = "text" ->
            SaveOutput(args) \o ClipboardPart(args, env) \o ClosingNotification(args)

HandleGrab(args, env) ==
    IF args.dry_run THEN <<"print: dry run">>
    ELSE Unless(args.silent, "notify: processing") \o
         (CASE env.capture \in {"stdout", "file"} -> AfterCapture(args, env)
            [] env.capture \in {"failed", "fallback_failed"} ->
                  Unless(args.silent, "notify: error capture")
            [] OTHER -> <<>>)

NoGrabCall == [op |-> "none"]

GrabIdle == grabCall = NoGrabCall

handle_grab_command ==
    /\ grabCall = NoGrabCall
    /\ \E args \in GrabArgs, env \in GrabEnvs :
          grabCall' = [op |-> "grab", args |-> args, env |-> env,
                       events |-> HandleGrab(args, env)]
    /\ UNCHANGED <<ocrVars, preVars, valVars, thrVars, sglVars, langVars, hdlVars>>

GrabResultTaken ==
    /\ grabCall # NoGrabCall
    /\ grabCall' = NoGrabCall
    /\ UNCHANGED <<ocrVars, preVars, valVars, thrVars, sglVars, langVars, hdlVars>>

----------------------------------------------------------------------------
(* grabtext.py: ImageHandler, whose on_created may run in several threads.
   A thread is preempted only between the steps below; each step holds
   file_lock for the part of it that the code runs under the lock *)

Paths == {"shot.PNG", "notes.txt"}

\* event.src_path.lower().endswith(('.png', '.jpg', '.jpeg'))
LowerSuffix(path) ==
    CASE path = "shot.PNG" -> ".png"
      [] path = "notes.txt" -> ".txt"

IsImagePath(path) == LowerSuffix(path) \in {".png", ".jpg", ".jpeg"}

Sizes == 0..MaxSize

\* a file on disk: os.path.getsize gives size or raises OSError when the file
\* is missing; open(...).read(1) works or raises
Files ==
    [size : Sizes, state : {"readable", "locked"}]
        \cup {[size |-> 0, state |-> "missing"]}

\* max_wait / check_interval: the polls one _wait_for_file_completion makes
MaxPolls == 10

NotHandling ==
    [pc |-> "idle", path |-> "", polls |-> 0, outcome |-> "",
     last_size |-> 0, current_size |-> 0, opened |-> FALSE]

\* ImageHandler(process_func)
HandlerConstructed ==
    /\ processing_files = {}
    /\ file_sizes = [p \in Paths |-> 0]
    /\ timer_pending = [p \in Paths |-> FALSE]
    /\ disk = [p \in Paths |-> [size |-> 0, state |-> "readable"]]
    /\ handler = [t \in Threads |-> NotHandling]

\* a variant of the test under the lock that lets every event through
AlreadyProcessingNever(path) == FALSE

\* if event.src_path in self.processing_files
AlreadyProcessing(path) == path \in processing_files

\* a variant of _is_file_ready that only tries to open the file
IsFileReadyOnOpen(last_size, file) == file.state = "readable"

\* _is_file_ready: False if getsize raises, if last_size == 0 or the size
\* differs from last_size, or if the file cannot be opened
IsFileReady(last_size, file) ==
    /\ file.state # "missing"
    /\ ~(last_size = 0 \/ file.size # last_size)
    /\ file.state = "readable"

\* on_created up to the end of the first with-block
on_created(t) ==
    /\ handler[t].pc = "idle"
    /\ \E path \in Paths, is_directory \in BOOLEAN :
          IF is_directory \/ ~IsImagePath(path)
            THEN /\ handler' = [handler EXCEPT ![t] =
                        [NotHandling EXCEPT !.path = path, !.outcome = "ignored"]]
                 /\ UNCHANGED processing_files
            ELSE IF AlreadyProcessing(path)
                   THEN /\ handler' = [handler EXCEPT ![t] =
                               [NotHandling EXCEPT !.path = path, !.outcome = "duplicate"]]
                        /\ UNCHANGED processing_files
                   ELSE /\ processing_files' = processing_files \cup {path}
                        /\ handler' = [handler EXCEPT ![t] =
                               [NotHandling EXCEPT !.pc = "waiting", !.path = path]]
    /\ UNCHANGED <<file_sizes, timer_pending, disk>>
    /\ UNCHANGED notHdlVars

\* one turn of the loop of _wait_for_file_completion: _is_file_ready, then
\* either return True, and on_created calls process_func, or sleep; after
\* the last turn the loop ends and the file is skipped
wait_for_file_completion(t) ==
    LET path == handler[t].path
        file == disk[path]
        last_size == file_sizes[path]
        ready == IsFileReady(last_size, file)
        polled == [handler[t] EXCEPT !.polls = @ + 1]
        \* what the poll that returned True saw
        seen == [polled EXCEPT !.last_size = last_size,
                               !.current_size = file.size,
                               !.opened = file.state = "readable"]
    IN  /\ handler[t].pc = "waiting"
        /\ handler[t].polls < MaxPolls
        /\ file_sizes' = IF file.state = "missing" THEN file_sizes
                         ELSE [file_sizes EXCEPT ![path] = file.size]
        /\ handler' = [handler EXCEPT ![t] =
              IF ready THEN [seen EXCEPT !.pc = "processing"]
              ELSE IF polled.polls = MaxPolls
                     THEN [polled EXCEPT !.pc = "finally", !.outcome = "skipped",
                                         !.polls = 0]
                     ELSE polled]
        /\ UNCHANGED <<processing_files, timer_pending, disk>>
        /\ UNCHANGED notHdlVars

\* self.process_func(event.src_path) ends, normally or with an exception
\* that on_created catches and logs
process_func(t) ==
    /\ handler[t].pc = "processing"
    /\ \E outcome \in {"processed", "raised"} :
          handler' = [handler EXCEPT ![t] =
             [NotHandling EXCEPT !.pc = "finally", !.path = handler[t].path,
                                 !.outcome = outcome]]
    /\ UNCHANGED <<processing_files, file_sizes, timer_pending, disk>>
    /\ UNCHANGED notHdlVars

\* finally: discard the path, start the Timer; on_created returns
on_created_finally(t) ==
    /\ handler[t].pc = "finally"
    /\ processing_files' = processing_files \ {handler[t].path}
    /\ timer_pending' = [timer_pending EXCEPT ![handler[t].path] = TRUE]
    /\ handler' = [handler EXCEPT ![t] =
          [NotHandling EXCEPT !.path = handler[t].path,
                              !.outcome = handler[t].outcome]]
    /\ UNCHANGED <<file_sizes, disk>>
    /\ UNCHANGED notHdlVars

\* threading.Timer(10.0, lambda: self.file_sizes.pop(path, None)) fires;
\* timers started by other calls for the path may still be running
TimerFires ==
    \E path \in Paths, more \in BOOLEAN :
       /\ timer_pending[path]
       /\ file_sizes' = [file_sizes EXCEPT ![path] = 0]
       /\ timer_pending' = [timer_pending EXCEPT ![path] = more]
       /\ UNCHANGED <<processing_files, disk, handler>>
       /\ UNCHANGED notHdlVars

\* whoever writes the file: it grows, shrinks, is replaced, locked or removed
FileChanges ==
    \E path \in Paths, file \in Files :
       /\ IsImagePath(path)
       /\ file # disk[path]
       /\ disk' = [disk EXCEPT ![path] = file]
       /\ UNCHANGED <<processing_files, file_sizes, timer_pending, handler>>
       /\ UNCHANGED notHdlVars

\* the components of the application, before any of them is used
AppLoaded ==
    ModuleLoaded /\ LanguageDefaults /\ GrabIdle /\ HandlerConstructed

----------------------------------------------------------------------------
(* Specifications: one per component, the other components idle *)

ManagerIdle ==
    /\ backend = [e \in Engines |-> FALSE]
    /\ available = backend
    /\ default_engine = "tesseract"
    /\ ocrCall = NoCall
    /\ ocrLog = <<>>

ValidatorIdle ==
    /\ language = "pt"
    /\ hash_seed = 0
    /\ valCall = NoValCall

InitOCR ==
    ManagerConstructed /\ ProcessorConstructed /\ ValidatorIdle
    /\ ThresholdManagerConstructed
    /\ AppLoaded

NextOCR ==
    \/ ManagerExtractText
    \/ ManagerGetEngine
    \/ ManagerGetEngineInfo
    \/ ManagerGetAvailableEngines
    \/ EngineExtractText
    \/ OcrResultTaken

SpecOCR == InitOCR /\ [][NextOCR]_vars

InitPre ==
    ProcessorConstructed /\ ManagerIdle /\ ValidatorIdle
    /\ ThresholdManagerConstructed
    /\ AppLoaded

NextPre ==
    \/ add_grayscale
    \/ add_blur
    \/ add_threshold
    \/ add_denoise
    \/ add_contrast_enhancement
    \/ add_sharpen
    \/ add_resize
    \/ get_preset
    \/ clear_steps
    \/ preprocess
    \/ preprocess_again
    \/ PreResultTaken

SpecPre == InitPre /\ [][NextPre]_vars

InitVal ==
    ValidatorConstructed /\ ManagerIdle /\ ProcessorConstructed
    /\ ThresholdManagerConstructed
    /\ AppLoaded

NextVal == validate_text \/ validate_text_again \/ ValResultTaken

SpecVal == InitVal /\ [][NextVal]_vars

InitThr ==
    ThresholdManagerConstructed /\ ManagerIdle /\ ProcessorConstructed
    /\ ValidatorIdle
    /\ AppLoaded

NextThr ==
    \/ get_threshold_level
    \/ should_retry
    \/ get_preprocessing_suggestion
    \/ ThrResultTaken

SpecThr == InitThr /\ [][NextThr]_vars

Idle ==
    ManagerIdle /\ ProcessorConstructed /\ ValidatorIdle
    /\ ThresholdManagerConstructed

InitSgl == AppLoaded /\ Idle

NextSgl == get_ocr_manager

SpecSgl == InitSgl /\ [][NextSgl]_vars

InitLang == AppLoaded /\ Idle

NextLang ==
    \/ main_initialize_language
    \/ initialize_language
    \/ set_language
    \/ LangResultTaken

SpecLang == InitLang /\ [][NextLang]_vars

InitGrab == AppLoaded /\ Idle

NextGrab == handle_grab_command \/ GrabResultTaken

SpecGrab == InitGrab /\ [][NextGrab]_vars

InitHdl == AppLoaded /\ Idle

NextHdl ==
    \/ \E t \in Threads :
          \/ on_created(t)
          \/ wait_for_file_completion(t)
          \/ process_func(t)
          \/ on_created_finally(t)
    \/ TimerFires
    \/ FileChanges

SpecHdl == InitHdl /\ [][NextHdl]_vars

----------------------------------------------------------------------------
(* Properties of the recognition layer *)

\* the engine the request resolves to before any fallback, None if there is none
ResolvedEngine == Registered(IF ocrCall.requested = None THEN default_engine
                                                         ELSE ocrCall.requested)

ResolvedAvailable == ResolvedEngine # None /\ available[ResolvedEngine]

NoEngineAvailable == \A e \in Engines : ~available[e]

\* C1: OCREngineManager.extract_text, for every engine_name (registered,
\* unknown or None): no exception reaches the caller; when the resolved engine
\* is unavailable and tesseract is available the result is produced by
\* tesseract; when no registered engine is available the result has
\* success = false and a non-empty 'error'.
C1_ManagerFallsBackAndNeverRaises ==
    ocrCall.op = "manager" =>
        /\ ocrCall.outcome = "returned"
        /\ (~ResolvedAvailable /\ available["tesseract"]) =>
               /\ ocrCall.engine = "tesseract"
               /\ ocrCall.result.engine = "tesseract"
        /\ NoEngineAvailable =>
               /\ ocrCall.result.success = FALSE
               /\ ocrCall.result.error # Absent
               /\ ocrCall.result.error[1] # ""

\* a request for an unavailable engine was served by tesseract, with text
C1_Witness ==
    /\ ocrCall.op = "manager"
    /\ ocrCall.requested = "google_cloud"
    /\ ~available["google_cloud"]
    /\ available["tesseract"]
    /\ ocrCall.result.engine = "tesseract"
    /\ ocrCall.result.success
    /\ ocrCall.result.has_text

\* C8: every result of an engine's extract_text and of the manager's:
\* success = false implies text = "" and avg_confidence = 0, and has_text is
\* true exactly when the returned text, trimmed, is non-empty.
C8_ResultInvariant ==
    (ocrCall.op # "none" /\ ocrCall.outcome = "returned") =>
        LET r == ocrCall.result
        IN  /\ ~r.success => (r.text = <<>> /\ r.avg_confidence = 0)
            /\ r.has_text <=> (Strip(r.text) # <<>>)

\* EasyOCR joined two detections into a text with an inner blank
C8_Witness ==
    /\ ocrCall.op = "engine"
    /\ ocrCall.engine = "easyocr"
    /\ ocrCall.result.success
    /\ ocrCall.result.has_text
    /\ Len(ocrCall.raw.items) = 2
    /\ Len(ocrCall.result.text) = 3

\* the tokens the backend reported all carry the same native confidence c
UniformNative(c) ==
    /\ ocrCall.raw.items # <<>>
    /\ \A i \in 1..Len(ocrCall.raw.items) :
          /\ ocrCall.raw.items[i].conf = c
          /\ Strip(ocrCall.raw.items[i].text) # <<>>

\* C9: every engine reports its confidence in the common 0-100 unit: a native
\* percentage p as p, a native fraction f as 100*f, the per-block estimate of
\* Google Cloud (0.95) as 95, so equally confident engines report the same
\* avg_confidence.  (avg_confidence is in hundredths of a point; fractions are
\* held in hundredths, so f = c/100 must come back as c points = 100*c.)
C9_CommonConfidenceScale ==
    (ocrCall.op # "none" /\ ocrCall.outcome = "returned" /\ ocrCall.result.success) =>
        /\ \A p \in TessConfs :
              (ocrCall.engine = "tesseract" /\ p >= 0 /\ UniformNative(p)) =>
                  ocrCall.result.avg_confidence = 100 * p
        /\ \A c \in EasyConfs :
              (ocrCall.engine = "easyocr" /\ UniformNative(c)) =>
                  ocrCall.result.avg_confidence = 100 * c
        /\ (ocrCall.engine = "google_cloud" /\ ocrCall.raw.items # <<>>) =>
                  ocrCall.result.avg_confidence = 100 * GcvEstimate

\* the same statement for the two engines that do rescale
ConfidenceScaleOfTesseractAndEasyOCR ==
    ocrCall.engine # "google_cloud" => C9_CommonConfidenceScale

\* C10: 0 <= avg_confidence <= 100 in every result of the three engines, for
\* native confidences within the engine's range.
C10_ConfidenceInRange ==
    (ocrCall.op # "none" /\ ocrCall.outcome = "returned") =>
        /\ 0 <= ocrCall.result.avg_confidence
        /\ ocrCall.result.avg_confidence <= 100 * 100

\* Tesseract reported a row without confidence (-1) beside a row at 100
C10_Witness ==
    /\ ocrCall.op # "none"
    /\ ocrCall.engine = "tesseract"
    /\ ocrCall.result.success
    /\ \E i \in 1..Len(ocrCall.raw.items) : ocrCall.raw.items[i].conf = -1
    /\ ocrCall.result.avg_confidence = 100 * 100

----------------------------------------------------------------------------
(* Properties of the preprocessing pipeline *)

PreReturned == preCall.op = "preprocess"

\* C2: whenever one step raises it is logged and skipped, the current image
\* after the failed step is exactly the image that was current before it
\* (nothing the failed step did survives, the threshold step's grayscale
\* coercion included), every remaining step is still executed in order, and
\* the call does not abort.
C2_FailedStepLeavesImageAsBefore ==
    (PreReturned /\ ~preCall.faultIn) =>
        /\ preCall.outcome = "returned"
        /\ Len(preCall.trace) = Len(preprocessing_steps)
        /\ \A i \in 1..Len(preCall.trace) :
              /\ preCall.trace[i].step = preprocessing_steps[i]
              /\ preCall.trace[i].failed =>
                    /\ preCall.trace[i].after = preCall.trace[i].before
                    /\ preLog[i] = "warning: Failed to apply preprocessing step"

\* the same, leaving out what the failed step did to the image
FailedStepIsSkippedAndTheRestRuns ==
    (PreReturned /\ ~preCall.faultIn) =>
        /\ preCall.outcome = "returned"
        /\ Len(preCall.trace) = Len(preprocessing_steps)
        /\ \A i \in 1..Len(preCall.trace) :
              /\ preCall.trace[i].step = preprocessing_steps[i]
              /\ preCall.trace[i].failed =>
                    preLog[i] = "warning: Failed to apply preprocessing step"
              /\ i > 1 => preCall.trace[i].before = preCall.trace[i - 1].after

\* C3: if anything outside the per-step handling fails (the conversion of the
\* input to an array, the conversion of the final array back to an image)
\* the call raises nothing and returns the caller's input image, unmodified.
C3_PipelineFailureReturnsInput ==
    (PreReturned /\ (preCall.faultIn \/ preCall.faultOut)) =>
        /\ preCall.outcome = "returned"
        /\ preCall.ret.obj = "input"
        /\ preCall.ret.image = preCall.input

\* the final conversion of a 4-plane input raised after a step had run
C3_Witness ==
    /\ PreReturned
    /\ preCall.faultOut
    /\ preCall.input.px.planes = 4
    /\ preCall.trace # <<>>
    /\ ~preCall.trace[1].failed
    /\ preCall.ret.image = preCall.input

----------------------------------------------------------------------------
(* Properties of text validation, under SpecVal *)

ValidateCalled == valCall.op = "validate_text"

NonEmptyCall == ValidateCalled /\ Strip(valCall.text) # <<>>

EmptyCall == ValidateCalled /\ Strip(valCall.text) = <<>>

\* the score the documentation describes, in thousandths of a point, read off
\* the analyses of a returned result
DocumentedScore(ocr_confidence, result) ==
    LET b == result.basic_analysis[1]
        p == result.pattern_analysis[1]
        q == result.quality_analysis[1]
        O == (Min(ocr_confidence, 10000) * 40 * 1000) \div 10000
        B == (IF b.char_count >= 3 THEN 10 ELSE 0)
           + (IF b.word_count >= 1 THEN 10 ELSE 0)
           + (IF 10 * b.letter_count >= 3 * b.char_count
                 /\ 10 * b.letter_count <= 9 * b.char_count THEN 10 ELSE 0)
        P == (IF 10 * p.common_count > p.common_total THEN 5 ELSE 0)
           + (IF p.words >= 1 THEN 5 ELSE 0)
           + (IF p.numbers >= 1 THEN 5 ELSE 0)
           + (IF p.email \/ p.url THEN 5 ELSE 0)
        Q == (IF q.suspicious_chars = 0 THEN 3 ELSE 0)
           + (IF q.repeated_chars = 0 THEN 3 ELSE 0)
           + (IF ~q.irregular_spacing THEN 2 ELSE 0)
           + (IF q.readability_score[1] > 50 * q.readability_score[2] THEN 2 ELSE 0)
    IN  Min(100 * 1000, O + 1000 * (B + P + Q))

\* C4: for every text that is not empty after trimming and every
\* ocr_confidence, validate_text returns final_score = min(100, O + B + P + Q),
\* O the OCR part (up to 40), B the basic part (up to 30), P the pattern part
\* (up to 20) and Q the quality part (up to 10).
C4_FinalScoreIsWeightedSum ==
    NonEmptyCall =>
        /\ valCall.outcome = "returned"
        /\ valCall.result.final_score
               = DocumentedScore(valCall.ocr_confidence, valCall.result)

\* whenever the call does return, the score is the documented sum
ReturnedScoreIsWeightedSum ==
    NonEmptyCall /\ valCall.outcome = "returned" =>
        valCall.result.final_score
            = DocumentedScore(valCall.ocr_confidence, valCall.result)

\* C5: for every text and ocr_confidence, the is_valid field validate_text
\* returns is true exactly when final_score >= 30 and the trimmed text has at
\* least 3 characters and at least 1 word.
C5_IsValidIffThresholdsMet ==
    ValidateCalled =>
        /\ valCall.outcome = "returned"
        /\ valCall.result.is_valid
               <=> /\ valCall.result.final_score >= 30 * 1000
                   /\ Len(Strip(valCall.text)) >= 3
                   /\ Len(SplitWords(Strip(valCall.text))) >= 1

\* whenever the call does return, is_valid is the documented conjunction
ReturnedIsValidIffThresholdsMet ==
    ValidateCalled /\ valCall.outcome = "returned" =>
        (valCall.result.is_valid
            <=> /\ valCall.result.final_score >= 30 * 1000
                /\ Len(Strip(valCall.text)) >= 3
                /\ Len(SplitWords(Strip(valCall.text))) >= 1)

\* C6: validate_text on an empty or whitespace-only text returns, whatever the
\* ocr_confidence, the one fixed result: is_valid false, final_score 0, one
\* fixed recommendation, and no basic, pattern or quality analysis is run.
C6_EmptyTextGivesFixedResult ==
    EmptyCall =>
        /\ valCall.outcome = "returned"
        /\ valCall.ran = <<>>
        /\ valCall.result.is_valid = FALSE
        /\ valCall.result.final_score = 0
        /\ valCall.result.recommendations = <<"Nenhum texto detectado">>
        /\ valCall.result.basic_analysis = EmptyDict
        /\ valCall.result.pattern_analysis = EmptyDict
        /\ valCall.result.quality_analysis = EmptyDict

\* a whitespace-only text with a high confidence, validated in the default
\* language, came back
C6_Witness ==
    /\ EmptyCall
    /\ valCall.text = <<" ", " ">>
    /\ valCall.ocr_confidence = 9000
    /\ language = "pt"
    /\ valCall.outcome = "returned"

ResultFields ==
    {"text", "is_valid", "final_score", "ocr_confidence", "basic_analysis",
     "pattern_analysis", "quality_analysis", "recommendations"}

\* C7: for every non-empty text, every ocr_confidence and every validator
\* language (the default 'pt', 'en', any unknown code), validate_text raises
\* no exception and returns a result carrying all eight fields.
C7_EveryLanguageReturnsWellFormedResult ==
    NonEmptyCall =>
        /\ valCall.outcome = "returned"
        /\ DOMAIN valCall.result = ResultFields
        /\ Len(valCall.result.basic_analysis) = 1
        /\ Len(valCall.result.pattern_analysis) = 1
        /\ Len(valCall.result.quality_analysis) = 1

\* the languages whose pattern family compiles return a well-formed result
OtherLanguagesReturnWellFormedResult ==
    NonEmptyCall /\ language # "pt" =>
        /\ valCall.outcome = "returned"
        /\ DOMAIN valCall.result = ResultFields

\* C11: for every text and every ocr_confidence handed to validate_text, values
\* below 0 and above 100 included, the final_score returned lies in 0..100.
C11_FinalScoreWithinZeroAndHundred ==
    ValidateCalled /\ valCall.outcome = "returned" =>
        /\ 0 <= valCall.result.final_score
        /\ valCall.result.final_score <= 100 * 1000

\* the cap at 100 is there; the floor at 0 holds for confidences from 0 up
FinalScoreAtMostHundred ==
    ValidateCalled /\ valCall.outcome = "returned" =>
        /\ valCall.result.final_score <= 100 * 1000
        /\ valCall.ocr_confidence >= 0 => valCall.result.final_score >= 0

BandMessages ==
    <<"Texto muito baixa qualidade. Consiste em capturar novamente.",
      "Qualidade baixa. Tente pre-processamento da imagem.",
      "Qualidade razoavel. Pode haver alguns erros.">>

SuspiciousMessage == "Verificar caracteres incomuns detectados."

\* the list the documentation describes, read off a returned result
DocumentedRecommendations(result) ==
    LET b == result.basic_analysis[1]
        q == result.quality_analysis[1]
        when(cond, msg) == IF cond THEN <<msg>> ELSE <<>>
    IN  when(result.final_score < 30 * 1000, BandMessages[1])
        \o when(result.final_score >= 30 * 1000 /\ result.final_score < 50 * 1000,
                BandMessages[2])
        \o when(result.final_score >= 50 * 1000 /\ result.final_score < 70 * 1000,
                BandMessages[3])
        \o when(q.suspicious_chars > 0, SuspiciousMessage)
        \o when(q.repeated_chars > 0,
                "Possiveis erros de OCR em caracteres repetidos.")
        \o when(q.mixed_case_words > 0,
                "Verificar palavras com maiusculas/minusculas misturadas.")
        \o when(q.irregular_spacing, "Verificar espacamento irregular no texto.")
        \o when(10 * b.letter_count < 3 * b.char_count,
                "Texto com poucas letras. Pode ser principalmente numeros ou simbolos.")

\* C12: for every non-empty text the recommendations of validate_text are at
\* most one score-band message (for final_score < 30, else < 50, else < 70),
\* placed first, then exactly the triggered messages among suspicious
\* characters, repeated runs, mixed-case words, irregular spacing and letter
\* ratio < 0.3, in that order, each at most once.
C12_RecommendationsInFixedOrder ==
    NonEmptyCall =>
        /\ valCall.outcome = "returned"
        /\ valCall.result.recommendations = DocumentedRecommendations(valCall.result)

\* whenever the call does return, the list is the documented one
ReturnedRecommendationsInFixedOrder ==
    NonEmptyCall /\ valCall.outcome = "returned" =>
        valCall.result.recommendations = DocumentedRecommendations(valCall.result)

RepeatedAndSymbolRuns ==
    <<"a", "a", "a", "a", "a", "a", "a", "a", "!", "!", "!", "!", "#", "#", "#", "#">>

InSeq(x, seq) == \E i \in 1..Len(seq) : seq[i] = x

\* C19: validate_text("aaaaaaaa!!!!####", 10.0) returns is_valid = false and
\* recommendations holding both a low-score band message and the
\* suspicious-character message.
C19_RepeatedSymbolTextRejectedAndFlagged ==
    (ValidateCalled /\ valCall.text = RepeatedAndSymbolRuns
                    /\ valCall.ocr_confidence = 1000) =>
        /\ valCall.outcome = "returned"
        /\ valCall.result.is_valid = FALSE
        /\ \E i \in 1..Len(BandMessages) :
               InSeq(BandMessages[i], valCall.result.recommendations)
        /\ InSeq(SuspiciousMessage, valCall.result.recommendations)

\* what the call gives where it returns: the text passes, with the band
\* message for scores under 50 and the repeated-character message only
RepeatedSymbolTextPassesWhereReturned ==
    (ValidateCalled /\ valCall.text = RepeatedAndSymbolRuns
                    /\ valCall.ocr_confidence = 1000
                    /\ valCall.outcome = "returned") =>
        /\ valCall.result.is_valid = TRUE
        /\ valCall.result.final_score = 44 * 1000
        /\ valCall.result.recommendations
               = <<BandMessages[2], "Possiveis erros de OCR em caracteres repetidos.">>

----------------------------------------------------------------------------
(* Properties of ConfidenceThresholdManager, under SpecThr *)

Bands == <<"very_low", "low", "medium", "high", "very_high">>

\* the cutoffs of the five bands as documented, in tenths: 20 / 40 / 60 / 80 / 95
Cutoffs == <<200, 400, 600, 800, 950>>

BandIndex(band) == CHOOSE i \in 1..Len(Bands) : Bands[i] = band

LevelCalled == thrCall.op = "get_threshold_level"

\* C13: get_threshold_level(score) is, for every score, the lowest band in the
\* order very_low < low < medium < high < very_high whose cutoff (20 / 40 / 60 /
\* 80 / 95) is strictly greater than the score, the cutoff 95 included.
C13_LevelIsLowestBandAboveScore ==
    LevelCalled =>
        /\ InSeq(thrCall.ret[2], Bands)
        /\ Cutoffs[BandIndex(thrCall.ret[2])] > thrCall.confidence
        /\ \A i \in 1..(BandIndex(thrCall.ret[2]) - 1) :
               Cutoffs[i] <= thrCall.confidence

\* C13 as amended: the lowest band whose cutoff is strictly greater than the
\* score when there is one, and very_high when there is none (score >= 95).
C13_LevelIsLowestBandAboveScoreOrVeryHigh ==
    LevelCalled =>
        /\ InSeq(thrCall.ret[2], Bands)
        /\ \A i \in 1..(BandIndex(thrCall.ret[2]) - 1) :
               Cutoffs[i] <= thrCall.confidence
        /\ \/ Cutoffs[BandIndex(thrCall.ret[2])] > thrCall.confidence
           \/ /\ thrCall.ret[2] = "very_high"
              /\ \A i \in 1..Len(Cutoffs) : Cutoffs[i] <= thrCall.confidence

\* a score above every cutoff was classified
C13_Witness ==
    /\ LevelCalled
    /\ thrCall.confidence = 960
    /\ thrCall.ret = Level("very_high")

\* C14: get_threshold_level(59.9) returns 'low' and get_threshold_level(60.0)
\* returns 'medium'.
C14_BoundarySixty ==
    /\ (LevelCalled /\ thrCall.confidence = 599) => thrCall.ret = Level("low")
    /\ (LevelCalled /\ thrCall.confidence = 600) => thrCall.ret = Level("medium")

\* C14 as amended: get_threshold_level(59.9) returns 'medium' and
\* get_threshold_level(60.0) returns 'high'.
C14_BoundarySixtyMediumThenHigh ==
    /\ (LevelCalled /\ thrCall.confidence = 599) => thrCall.ret = Level("medium")
    /\ (LevelCalled /\ thrCall.confidence = 600) => thrCall.ret = Level("high")

C14_Witness ==
    /\ LevelCalled
    /\ thrCall.confidence = 600
    /\ thrCall.ret = Level("high")

\* C15: get_preprocessing_suggestion(score) is 'low_quality' below 20,
\* 'text_enhancement' from 20 to below 40, 'document_scan' from 40 to below 60
\* and 'none' otherwise; should_retry(score) is true exactly when score < 60,
\* that is exactly when the suggestion is not 'none'.
C15_SuggestionBandsAndRetry ==
    /\ thrCall.op = "get_preprocessing_suggestion" =>
          thrCall.ret[2] =
              (IF thrCall.confidence < 200 THEN "low_quality"
               ELSE IF thrCall.confidence < 400 THEN "text_enhancement"
               ELSE IF thrCall.confidence < 600 THEN "document_scan"
               ELSE "none")
    /\ thrCall.op = "should_retry" =>
          /\ thrCall.ret[2] <=> thrCall.confidence < 600
          /\ thrCall.ret[2] <=> GetPreprocessingSuggestion(thrCall.confidence) # "none"

\* should_retry answered no at exactly 60
C15_Witness ==
    /\ thrCall.op = "should_retry"
    /\ thrCall.confidence = 600
    /\ thrCall.ret = Flag(FALSE)

SuggestionCalled == thrCall.op = "get_preprocessing_suggestion"

\* C16: get_preprocessing_suggestion(15.0) returns 'low_quality',
\* get_preprocessing_suggestion(65.0) returns 'document_scan' and
\* get_preprocessing_suggestion(96.0) returns 'none'.
C16_SuggestionExamples ==
    /\ (SuggestionCalled /\ thrCall.confidence = 150) => thrCall.ret = Level("low_quality")
    /\ (SuggestionCalled /\ thrCall.confidence = 650) => thrCall.ret = Level("document_scan")
    /\ (SuggestionCalled /\ thrCall.confidence = 960) => thrCall.ret = Level("none")

\* C16 as amended: get_preprocessing_suggestion(15.0) returns 'low_quality',
\* get_preprocessing_suggestion(65.0) returns 'none' and
\* get_preprocessing_suggestion(96.0) returns 'none'.
C16_SuggestionExamplesNoneAtSixtyFive ==
    /\ (SuggestionCalled /\ thrCall.confidence = 150) => thrCall.ret = Level("low_quality")
    /\ (SuggestionCalled /\ thrCall.confidence = 650) => thrCall.ret = Level("none")
    /\ (SuggestionCalled /\ thrCall.confidence = 960) => thrCall.ret = Level("none")

C16_Witness ==
    /\ SuggestionCalled
    /\ thrCall.confidence = 650
    /\ thrCall.ret = Level("none")

----------------------------------------------------------------------------
(* Properties of the presets and of pipelines ending in a threshold, under
   SpecPre *)

\* the four step lists as documented; factors in tenths
DocumentedPresets ==
    [text_enhancement |->
         <<Step("grayscale", "", 0, 0), Step("blur", "", 3, 0),
           Step("contrast", "", 15, 0), Step("sharpen", "", 0, 0),
           Step("threshold", "adaptive", 11, 2)>>,
     low_quality |->
         <<Step("grayscale", "", 0, 0), Step("denoise", "", 0, 0),
           Step("contrast", "", 20, 0), Step("resize", "", 20, 0),
           Step("threshold", "otsu", 0, 0)>>,
     handwriting |->
         <<Step("grayscale", "", 0, 0), Step("blur", "", 5, 0),
           Step("contrast", "", 18, 0), Step("sharpen", "", 0, 0),
           Step("threshold", "adaptive", 15, 3)>>,
     document_scan |->
         <<Step("grayscale", "", 0, 0), Step("denoise", "", 0, 0),
           Step("contrast", "", 13, 0),
           Step("threshold", "otsu", 0, 0)>>]

\* a step as documented: an otsu threshold is documented without parameters
AsDocumented(step) ==
    IF step.op = "threshold" /\ step.method = "otsu"
    THEN Step("threshold", "otsu", 0, 0) ELSE step

\* C17: each of the four preset constructors returns a pipeline whose step list
\* is exactly the documented one (text_enhancement, low_quality, handwriting,
\* document_scan), in order, nothing extra and nothing missing, on every call.
C17_PresetsAreTheDocumentedLists ==
    preset # "" =>
        /\ preset \in DOMAIN DocumentedPresets
        /\ Len(preprocessing_steps) = Len(DocumentedPresets[preset])
        /\ \A i \in 1..Len(preprocessing_steps) :
               AsDocumented(preprocessing_steps[i]) = DocumentedPresets[preset][i]

\* get_preset_handwriting has returned its processor
C17_Witness ==
    /\ preset = "handwriting"
    /\ Len(preprocessing_steps) = 5
    /\ preCall.op = "none"

\* preprocess returned for a valid image with a pipeline ending in a threshold
ThresholdLastReturned ==
    /\ PreReturned
    /\ preCall.input.kind # "none"
    /\ preprocessing_steps # <<>>
    /\ preprocessing_steps[Len(preprocessing_steps)].op = "threshold"

GrayConversionOfLastStepRaised ==
    /\ preCall.trace # <<>>
    /\ preCall.trace[Len(preCall.trace)].before.planes # 1
    /\ preCall.plan[Len(preCall.plan)] = 1

----------------------------------------------------------------------------
(* Properties of the counts of a recognition result, under SpecOCR *)

\* C20: in every successful result of every engine, char_count is the length
\* of the returned (trimmed) text and word_count is the number of non-empty
\* whitespace-delimited tokens of that text.
C20_CountsMatchReturnedText ==
    (ocrCall.outcome = "returned" /\ ocrCall.result.success) =>
        /\ ocrCall.result.char_count = Len(ocrCall.result.text)
        /\ ocrCall.result.word_count = SplitCount(ocrCall.result.text)

\* EasyOCR counts on the text it returns
EasyOCRCountsMatchReturnedText ==
    (/\ ocrCall.outcome = "returned"
     /\ ocrCall.result.success
     /\ ocrCall.result.engine = "easyocr") =>
        /\ ocrCall.result.char_count = Len(ocrCall.result.text)
        /\ ocrCall.result.word_count = SplitCount(ocrCall.result.text)

\* Tesseract's char_count is the length of its text, and Google Cloud's
\* word_count the tokens of its text; the other two counts are the ones that
\* part from the text
CountsThatMatchReturnedText ==
    (ocrCall.outcome = "returned" /\ ocrCall.result.success) =>
        /\ ocrCall.result.engine = "tesseract" =>
               ocrCall.result.char_count = Len(ocrCall.result.text)
        /\ ocrCall.result.engine = "google_cloud" =>
               ocrCall.result.word_count = SplitCount(ocrCall.result.text)

----------------------------------------------------------------------------
(* Properties of the manager's bookkeeping, under SpecOCR *)

ProbeEvent == "probe: tesseract"

\* C21: after an OCREngineManager is constructed, no call to get_engine_info,
\* get_available_engines, get_engine or extract_text changes the registry, the
\* default engine or an availability flag, and none of them probes an engine's
\* availability again or constructs a new engine.
C21_ManagerCallsReadCachedFlagsOnly ==
    [][/\ available' = available
       /\ default_engine' = default_engine
       /\ ~InSeq(ProbeEvent, ocrLog')]_vars

\* the flags and the default engine never change; get_engine_info and
\* get_available_engines neither probe nor build an engine
ManagerStateNeverChanges ==
    [][/\ available' = available
       /\ default_engine' = default_engine
       /\ ocrCall'.op \in {"get_engine_info", "get_available_engines"} =>
              ocrLog' = <<>>]_vars

\* get_engine_info reports the cached flags
EngineInfoReportsCachedFlags ==
    ocrCall.op = "get_engine_info" =>
        \A e \in Engines :
            /\ ocrCall.value[1][e].available = available[e]
            /\ ~available[e] => ocrCall.value[1][e].supported_languages = <<>>

\* the call fell back from the requested (or default) engine to the baseline
FellBack ==
    /\ ocrCall.op \in {"manager", "get_engine"}
    /\ ~ResolvedAvailable
    /\ ocrCall.engine = "tesseract"
    /\ ResolvedEngine # "tesseract"

\* C24: each recovery event emits a log event whenever it occurs: every
\* preprocessing step that is skipped, every fallback from the requested or
\* default engine to the baseline engine in get_engine, every recognition
\* failure returned with success = false.
C24_RecoveryEventsAreLogged ==
    /\ PreReturned =>
          \A i \in 1..Len(preCall.trace) :
              preCall.trace[i].failed =>
                  preLog[i] = "warning: Failed to apply preprocessing step"
    /\ FellBack => \E i \in 1..Len(ocrLog) : ocrLog[i] # ProbeEvent
    /\ (ocrCall.outcome = "returned" /\ ~ocrCall.result.success) =>
          \E i \in 1..Len(ocrLog) :
              ocrLog[i] \in {"error: Tesseract OCR error", "error: EasyOCR error",
                             "error: Google Cloud Vision error"}

\* a failure that comes out of an except branch is logged
RaisedFailuresAreLogged ==
    (/\ ocrCall.outcome = "returned"
     /\ ~ocrCall.result.success
     /\ (ocrCall.engine = "tesseract" \/ available[ocrCall.engine])) =>
        \E i \in 1..Len(ocrLog) :
            ocrLog[i] \in {"error: Tesseract OCR error", "error: EasyOCR error",
                           "error: Google Cloud Vision error"}

\* C25: whenever at least one registered engine is available, get_engine
\* returns an available engine for every requested name (registered, unknown
\* or None); an unavailable engine is returned only when none is available.
C25_GetEngineReturnsAvailableEngine ==
    (ocrCall.op \in {"manager", "get_engine"} /\ ~NoEngineAvailable) =>
        /\ ocrCall.engine \in Engines
        /\ available[ocrCall.engine]

\* with tesseract available get_engine always returns an available engine
GetEngineReturnsAvailableIfTesseractIs ==
    (ocrCall.op \in {"manager", "get_engine"} /\ available["tesseract"]) =>
        /\ ocrCall.engine \in Engines
        /\ available[ocrCall.engine]

----------------------------------------------------------------------------
(* Properties of get_ocr_manager, under SpecSgl *)

\* C26: get_ocr_manager returns the same OCREngineManager instance on every
\* call in the process, and at most one OCREngineManager is ever constructed,
\* also when the first calls are made concurrently from several threads.
C26_OneManagerForAllCallers ==
    /\ constructed <= 1
    /\ \A t, u \in Threads :
          (caller[t].got # 0 /\ caller[u].got # 0) => caller[t].got = caller[u].got

\* calls that do not overlap the first one all get the one instance: once the
\* first call has assigned and nobody is between test and assignment, every
\* later call returns what is stored and constructs nothing
C26_LaterCallsReturnTheStoredManager ==
    [][(/\ ocr_manager # 0
        /\ \A t \in Threads : caller[t].pc \notin {"construct", "assign"})
       => (ocr_manager' = ocr_manager /\ constructed' = constructed)]_vars

----------------------------------------------------------------------------
(* Properties of language initialisation, under SpecLang *)

SetLanguageFrames == {i \in 1..Len(frames) : frames[i].fn = "set_language"}

\* C29: one call of initialize_language invokes set_language at most once,
\* set_language does not lead back into another set_language call, and the
\* configuration file is written at most once.
C29_SetLanguageRunsAtMostOnce ==
    /\ set_language_calls <= 1
    /\ Cardinality(SetLanguageFrames) <= 1
    /\ config_writes <= 1

\* the recursion does end: the stack never grows past the interpreter's limit,
\* and an unsupported language never reaches save_config
RecursionStopsAtTheLimit ==
    /\ Len(frames) <= RecursionLimit
    /\ (~is_language_supported(current_lang_code) /\ frames # <<>>) => config_writes = 0

----------------------------------------------------------------------------
(* Properties of the capture from the screen, under SpecGrab *)

GrabRan == grabCall.op = "grab" /\ ~grabCall.args.dry_run

Emitted(kinds) == \E i \in 1..Len(grabCall.events) : grabCall.events[i] \in kinds

CaptureSucceeded == grabCall.env.capture \in {"stdout", "file"}

SomethingFailed ==
    \/ grabCall.env.capture \in {"failed", "fallback_failed"}
    \/ CaptureSucceeded /\ grabCall.env.ocr = "raises"
    \/ /\ CaptureSucceeded /\ grabCall.env.ocr = "text"
       /\ \/ grabCall.args.output = "unwritable"
          \/ ~grabCall.args.no_clipboard /\ grabCall.env.clipboard = "fails"

\* C30: when the capture succeeds and OCR yields non-empty text, the run
\* completes without sending an error notification and without printing an
\* error; error notifications are sent only when the capture tool fails or
\* an operation actually fails.
C30_SuccessfulGrabReportsNoError ==
    GrabRan =>
       /\ (CaptureSucceeded /\ grabCall.env.ocr = "text" /\ ~SomethingFailed)
             => ~Emitted(ErrorNotifications \cup ErrorPrints)
       /\ Emitted(ErrorNotifications) => SomethingFailed

\* where no text comes out, the reports are as described: nothing is reported
\* for empty text or a cancelled capture, and a failed capture is reported
\* exactly when the run is not silent
GrabWithoutTextReportsOnlyFailures ==
    (GrabRan /\ ~(CaptureSucceeded /\ grabCall.env.ocr = "text")) =>
       /\ Emitted(ErrorNotifications \cup ErrorPrints) => SomethingFailed
       /\ (SomethingFailed /\ ~grabCall.args.silent) <=> Emitted(ErrorNotifications)

----------------------------------------------------------------------------
(* Properties of ImageHandler, under SpecHdl *)

Processing(t, path) == handler[t].pc = "processing" /\ handler[t].path = path

\* the call of thread t that added its path returns in this step
AddingCallReturns(t) == handler[t].pc = "finally" /\ handler'[t].pc = "idle"

\* the call of thread t finds its path already present and returns in this step
DuplicateCallReturns(t) ==
    handler[t].pc = "idle" /\ handler'[t] # handler[t]
    /\ handler'[t].outcome = "duplicate"

Polls(t) == handler[t].pc = "waiting" /\ handler'[t] # handler[t]

\* C28: process_func is called for a path only after a poll of _is_file_ready
\* saw the same non-zero size as the preceding poll recorded for that path
\* and could read the file; a file whose size changes between every two
\* polls, or stays at 0 bytes, is never processed, and is skipped after at
\* most max_wait / check_interval = 10 polls.
C28_ProcessedOnlyAfterSteadyReadablePoll ==
    [][\A t \in Threads :
          LET path == handler[t].path
          IN  /\ handler'[t].pc = "processing" =>
                    /\ handler'[t].last_size # 0
                    /\ handler'[t].current_size = handler'[t].last_size
                    /\ handler'[t].opened
              /\ (Polls(t) /\ handler'[t].pc = "processing") =>
                    /\ file_sizes[path] # 0
                    /\ disk[path].size = file_sizes[path]
              /\ (Polls(t) /\ (file_sizes[path] = 0 \/ disk[path].size # file_sizes[path]))
                    => handler'[t].pc \in {"waiting", "finally"}
              /\ handler'[t].polls <= MaxPolls
              /\ (Polls(t) /\ handler[t].polls = MaxPolls - 1)
                    => handler'[t].pc \in {"processing", "finally"}]_vars

\* a file became steady on the last poll allowed and is being processed, after
\* a call for the same path had been skipped
C28_ProcessedOnASteadyFile ==
    \E t \in Threads :
       /\ handler[t].pc = "processing"
       /\ handler[t].polls = MaxPolls
       /\ handler[t].current_size = MaxSize
       /\ \E u \in Threads \ {t} : handler[u].outcome = "skipped"

\* a call is skipped on its last poll, never sooner
SkippedOnTheLastPollOnly ==
    [][\A t \in Threads :
          (Polls(t) /\ handler'[t].outcome = "skipped")
             => handler[t].polls = MaxPolls - 1]_vars

----------------------------------------------------------------------------
(* Properties of repeated preprocessing, under SpecPre *)

\* a preprocess call, the first or the repeated one, returns in this step
PreprocessReturns == preCall'.op = "preprocess" /\ preCall' # preCall

C22_AppliedTwiceWithPipelineFailure ==
    /\ PreReturned
    /\ preCall.again.obj = "input"
    /\ preCall.faultOut
    /\ preCall.trace # <<>>

----------------------------------------------------------------------------
(* Properties of repeated validation, under SpecVal *)

Repeated == valCall.op = "validate_text" /\ valCall.again # NoReturn

====
